---- MODULE Spec2Model ----
(***************************************************************************)
(* Vandura: the spreadsheet ingestion engine (ExcelParser), the timesheet  *)
(* router's parseExcel / importExcel endpoints and the entity store they   *)
(* write to.                                                               *)
(*                                                                         *)
(* Text is a tuple of one-character strings, so that trimming, case        *)
(* folding, substring tests and number formatting are computed and not     *)
(* assumed.  A JavaScript value is a record [k, s, n]: k is its type tag,  *)
(* s its text (strings), n its number (numbers, in hundredths; dates, in   *)
(* minutes since the epoch, UTC).                                          *)
(***************************************************************************)
EXTENDS Integers, Sequences, FiniteSets, TLC

(* ------------------------------ text ---------------------------------- *)

UpperChars == <<"A","B","C","D","E","F","G","H","I","J","K","L","M","N","O","P","Q","R","S","T","U","V","W","X","Y","Z">>

LowerChars == <<"a","b","c","d","e","f","g","h","i","j","k","l","m","n","o","p","q","r","s","t","u","v","w","x","y","z">>

DigitChars == <<"0","1","2","3","4","5","6","7","8","9">>

\* String.prototype.toLowerCase, one character
LowerChar(c) ==
  IF \E i \in 1..Len(UpperChars) : UpperChars[i] = c
    THEN LowerChars[CHOOSE i \in 1..Len(UpperChars) : UpperChars[i] = c]
    ELSE c

ToLower(s) == [i \in 1..Len(s) |-> LowerChar(s[i])]

IsSpace(c) == c = " "

IsDigit(c) == \E i \in 1..Len(DigitChars) : DigitChars[i] = c

DigitVal(c) == (CHOOSE i \in 1..Len(DigitChars) : DigitChars[i] = c) - 1

RECURSIVE TrimStart(_)
TrimStart(s) ==
  IF s # <<>> /\ IsSpace(Head(s)) THEN TrimStart(Tail(s)) ELSE s

RECURSIVE TrimEnd(_)
TrimEnd(s) ==
  IF s # <<>> /\ IsSpace(s[Len(s)]) THEN TrimEnd(SubSeq(s, 1, Len(s) - 1)) ELSE s

\* String.prototype.trim
Trim(s) == TrimEnd(TrimStart(s))

\* s.replace(/\s+/g, ' ')
RECURSIVE CollapseSpaces(_)
CollapseSpaces(s) ==
  IF s = <<>> THEN <<>>
  ELSE IF IsSpace(Head(s))
    THEN <<" ">> \o CollapseSpaces(TrimStart(s))
    ELSE <<Head(s)>> \o CollapseSpaces(Tail(s))

\* s.replace(/[:\s]+$/g, '')
RECURSIVE StripTrailingColons(_)
StripTrailingColons(s) ==
  IF s # <<>> /\ (IsSpace(s[Len(s)]) \/ s[Len(s)] = ":")
    THEN StripTrailingColons(SubSeq(s, 1, Len(s) - 1))
    ELSE s

\* String.prototype.startsWith
StartsWith(s, t) == Len(t) <= Len(s) /\ SubSeq(s, 1, Len(t)) = t

\* String.prototype.endsWith
EndsWith(s, t) == Len(t) <= Len(s) /\ SubSeq(s, Len(s) - Len(t) + 1, Len(s)) = t

\* String.prototype.includes
Includes(s, t) ==
  \E i \in 1..(Len(s) - Len(t) + 1) : SubSeq(s, i, i + Len(t) - 1) = t

\* s.split(' ')[0]
RECURSIVE FirstToken(_)
FirstToken(s) ==
  IF s = <<>> \/ IsSpace(Head(s)) THEN <<>> ELSE <<Head(s)>> \o FirstToken(Tail(s))

AllDigits(s) == s # <<>> /\ \A i \in 1..Len(s) : IsDigit(s[i])

\* the value of a run of decimal digits
RECURSIVE DigitsToNat(_)
DigitsToNat(s) ==
  IF s = <<>> THEN 0 ELSE DigitsToNat(SubSeq(s, 1, Len(s) - 1)) * 10 + DigitVal(s[Len(s)])

\* the decimal digits of a natural number
RECURSIVE NatToStr(_)
NatToStr(n) ==
  IF n < 10 THEN <<DigitChars[n + 1]>> ELSE NatToStr(n \div 10) \o <<DigitChars[(n % 10) + 1]>>

\* the longest prefix of s made of digits
RECURSIVE DigitPrefix(_)
DigitPrefix(s) ==
  IF s # <<>> /\ IsDigit(Head(s)) THEN <<Head(s)>> \o DigitPrefix(Tail(s)) ELSE <<>>

\* the index of the first occurrence of character c in s, 0 when absent
IndexOfChar(s, c) ==
  IF \E i \in 1..Len(s) : s[i] = c
    THEN CHOOSE i \in 1..Len(s) : s[i] = c /\ \A j \in 1..(i - 1) : s[j] # c
    ELSE 0

\* a.localeCompare(b) < 0 for the names of the model (letters, digits, '-', space):
\* case-insensitive first, lower case before upper case on a tie
CharRank(c) ==
  IF IsDigit(c) THEN 10 + DigitVal(c)
  ELSE IF \E i \in 1..26 : LowerChars[i] = c
    THEN 100 + 2 * (CHOOSE i \in 1..26 : LowerChars[i] = c)
  ELSE IF \E i \in 1..26 : UpperChars[i] = c
    THEN 101 + 2 * (CHOOSE i \in 1..26 : UpperChars[i] = c)
  ELSE 1

RECURSIVE SeqLess(_, _)
SeqLess(a, b) ==
  IF b = <<>> THEN FALSE
  ELSE IF a = <<>> THEN TRUE
  ELSE IF Head(a) = Head(b) THEN SeqLess(Tail(a), Tail(b))
  ELSE Head(a) < Head(b)

LocaleLess(a, b) ==
  IF [i \in 1..Len(a) |-> CharRank(LowerChar(a[i]))] # [i \in 1..Len(b) |-> CharRank(LowerChar(b[i]))]
    THEN SeqLess([i \in 1..Len(a) |-> CharRank(LowerChar(a[i]))],
                 [i \in 1..Len(b) |-> CharRank(LowerChar(b[i]))])
    ELSE SeqLess([i \in 1..Len(a) |-> CharRank(a[i])], [i \in 1..Len(b) |-> CharRank(b[i])])

\* the least name of a non-empty set, by localeCompare
LeastName(S) == CHOOSE x \in S : \A y \in S \ {x} : LocaleLess(x, y)

\* Array.from(set).sort((a, b) => a.localeCompare(b))
RECURSIVE SortNames(_)
SortNames(S) ==
  LET after(m) == <<m>> \o SortNames(S \ {m})
  IN IF S = {} THEN <<>> ELSE after(LeastName(S))

\* the elements of a sequence
Range(q) == {q[i] : i \in 1..Len(q)}

\* the least element of a non-empty set of integers
MinOf(S) == CHOOSE x \in S : \A y \in S : x <= y

\* the greatest element of a non-empty set of integers
MaxOf(S) == CHOOSE x \in S : \A y \in S : y <= x

(* --------------------------- JavaScript values ------------------------- *)

Null == [k |-> "null", s |-> <<>>, n |-> 0]

Undefined == [k |-> "undefined", s |-> <<>>, n |-> 0]

Str(s) == [k |-> "str", s |-> s, n |-> 0]

\* a number, in hundredths (Num(25) is 0.25, Num(1500) is 15)
Num(n) == [k |-> "num", s |-> <<>>, n |-> n]

\* a Date, in minutes since the epoch (UTC)
DateVal(t) == [k |-> "date", s |-> <<>>, n |-> t]

\* NaN, the result of parseInt and Number on text that is no number
NaN == [k |-> "nan", s |-> <<>>, n |-> 0]

IsNullish(v) == v.k \in {"null", "undefined"}

\* the decimals of a number whose fraction is frac hundredths: '', '.5', '.05', '.25'
FractionDigits(frac) ==
  IF frac = 0 THEN <<>>
  ELSE IF frac % 10 = 0 THEN <<".">> \o NatToStr(frac \div 10)
  ELSE IF frac < 10 THEN <<".","0">> \o NatToStr(frac)
  ELSE <<".">> \o NatToStr(frac)

\* Number.prototype.toString for the numbers of the model (two decimals at most)
NumToStr(n) ==
  IF n < 0 THEN <<"-">> \o NatToStr((-n) \div 100) \o FractionDigits((-n) % 100)
  ELSE NatToStr(n \div 100) \o FractionDigits(n % 100)

\* String(v) / v.toString() for strings and numbers
ToStr(v) == IF v.k = "str" THEN v.s ELSE IF v.k = "num" THEN NumToStr(v.n) ELSE <<>>

\* parseInt(text, 10): an integer or NaN; leading white space is skipped, a sign is
\* read, then the digits up to the first character that is no digit
ParseInt(s) ==
  LET ofDigits(d, neg) ==
        IF d = <<>> THEN NaN
        ELSE [k |-> "int", s |-> <<>>, n |-> IF neg THEN -DigitsToNat(d) ELSE DigitsToNat(d)]
      ofTrimmed(t) ==
        IF t # <<>> /\ Head(t) \in {"-", "+"} THEN ofDigits(DigitPrefix(Tail(t)), Head(t) = "-")
        ELSE ofDigits(DigitPrefix(t), FALSE)
  IN ofTrimmed(TrimStart(s))

\* Number(text), in hundredths, for text of the form [-]digits[.digits]; NaN otherwise.
\* The empty (all-space) string is 0.
NumberOfText(s) ==
  LET hundredths(fp) ==
        IF Len(fp) = 0 THEN 0
        ELSE IF Len(fp) = 1 THEN DigitsToNat(fp) * 10
        ELSE DigitsToNat(SubSeq(fp, 1, 2))
      fraction(ip, fp) ==
        IF (ip = <<>> /\ fp = <<>>) \/ (ip # <<>> /\ ~AllDigits(ip)) \/ (fp # <<>> /\ ~AllDigits(fp))
          THEN NaN
          ELSE Num(DigitsToNat(ip) * 100 + hundredths(fp))
      decimal(u, dot) ==
        IF dot = 0 THEN fraction(u, <<>>)
        ELSE fraction(SubSeq(u, 1, dot - 1), SubSeq(u, dot + 1, Len(u)))
      negated(v) == IF v.k = "num" THEN Num(-v.n) ELSE v
      ofTrimmed(t) ==
        IF t = <<>> THEN Num(0)
        ELSE IF Head(t) = "-" THEN negated(decimal(Tail(t), IndexOfChar(Tail(t), ".")))
        ELSE decimal(t, IndexOfChar(t, "."))
  IN ofTrimmed(Trim(s))

\* /^\d+(?:\.\d+)?$/.test(s)
IsNumericText(s) ==
  \/ AllDigits(s)
  \/ \E dot \in 1..Len(s) :
       s[dot] = "." /\ AllDigits(SubSeq(s, 1, dot - 1)) /\ AllDigits(SubSeq(s, dot + 1, Len(s)))

\* normalizeCell: lower-cased, trimmed, inner white space collapsed, trailing
\* colons and spaces removed; '' for anything that is not a string
normalizeCell(v) ==
  IF v.k = "str" THEN StripTrailingColons(CollapseSpaces(Trim(ToLower(v.s)))) ELSE <<>>

(* ------------------------------- state --------------------------------- *)

VARIABLES
  tz,           \* the host's Date.getTimezoneOffset(), minutes (local = UTC - tz)
  developers,   \* table developers: row id |-> name (ids are 1..Len)
  projects,     \* table projects: row id |-> name
  tasks,        \* table tasks: row id |-> [projectId, name]
  timeEntries,  \* table time_entries: row id |-> entry
  pc,           \* where the request in flight stands
  req,          \* the request in flight: endpoint, mode, rows, options
  run,          \* parseRows' locals: i, entries, preview, errors, developerCandidates, ...
  result,       \* the ParseResult parseRows / parseFile returned
  response,     \* what the endpoint answered
  before,       \* history: the entity store when the request started
  bulkCalls,    \* history: calls of bulkCreateEntries made by the request
  imports       \* concurrent imports: each one's rows and position in entity resolution

vars ==
  <<tz, developers, projects, tasks, timeEntries, pc, req, run, result, response, before, bulkCalls,
    imports>>

store == <<developers, projects, tasks, timeEntries>>

(* ------------------------------- dates --------------------------------- *)

MinutesPerDay == 1440

\* Excel serial of 1970-01-01, ExcelParser.parseDate
SerialEpoch == 25569

LeapsThrough(y) == (y \div 4) - (y \div 100) + (y \div 400)

IsLeap(y) == (y % 4 = 0 /\ y % 100 # 0) \/ y % 400 = 0

\* days from 1970-01-01 to January 1st of year y
DaysBeforeYear(y) == 365 * (y - 1970) + LeapsThrough(y - 1) - LeapsThrough(1969)

MonthStarts == <<0, 31, 59, 90, 120, 151, 181, 212, 243, 273, 304, 334>>

\* days from January 1st of y to the first of month index mi (0..11)
DaysBeforeMonth(y, mi) == MonthStarts[mi + 1] + (IF mi >= 2 /\ IsLeap(y) THEN 1 ELSE 0)

\* new Date(y, monthIndex, d): local midnight; a month index outside 0..11 and a day
\* outside the month carry over, as in JavaScript
NewLocalDate(z, y, monthIndex, d) ==
  LET yy == y + (monthIndex \div 12)
      mi == monthIndex % 12
      days == DaysBeforeYear(yy) + DaysBeforeMonth(yy, mi) + (d - 1)
  IN DateVal(days * MinutesPerDay + z)

\* local midnight of the local calendar day of t
LocalDayStart(z, t) == ((t - z) \div MinutesPerDay) * MinutesPerDay + z

\* Date.prototype.getFullYear() >= y
YearAtLeast(z, t, y) == (t - z) >= DaysBeforeYear(y) * MinutesPerDay

\* d.setDate(d.getDate() + delta)
AddDays(t, delta) == t + delta * MinutesPerDay

\* result.setHours(hours, minutes, 0, 0) on a copy of date
SetHours(z, t, hours, minutes) == LocalDayStart(z, t) + hours * 60 + minutes

\* (serial - 25569) * 86400000 ms, for a serial in hundredths of a day
SerialToDate(n100) == DateVal(((n100 - SerialEpoch * 100) * MinutesPerDay) \div 100)

\* new Date(s) for the text the earlier branches of parseDate left over: of the
\* texts of the model only an ISO date-time 'YYYY-MM-DDTHH:MM' (local time) parses
NativeDate(z, s) ==
  LET local(y, m, d, hh, mm) ==
        IF m \in 1..12 /\ d \in 1..31 /\ hh \in 0..23 /\ mm \in 0..59
          THEN DateVal(NewLocalDate(z, y, m - 1, d).n + hh * 60 + mm)
          ELSE Null
  IN IF Len(s) = 16 /\ s[5] = "-" /\ s[8] = "-" /\ s[11] = "T" /\ s[14] = ":"
        /\ \A i \in {1, 2, 3, 4, 6, 7, 9, 10, 12, 13, 15, 16} : IsDigit(s[i])
       THEN local(DigitsToNat(SubSeq(s, 1, 4)), DigitsToNat(SubSeq(s, 6, 7)),
                  DigitsToNat(SubSeq(s, 9, 10)), DigitsToNat(SubSeq(s, 12, 13)),
                  DigitsToNat(SubSeq(s, 15, 16)))
       ELSE Null

\* the parts of text split at character c
RECURSIVE SplitAt(_, _)
SplitAt(s, c) ==
  LET p == IndexOfChar(s, c)
  IN IF p = 0 THEN <<s>> ELSE <<SubSeq(s, 1, p - 1)>> \o SplitAt(SubSeq(s, p + 1, Len(s)), c)

\* p is a run of digits whose length is in lens
IsDigitRun(p, lens) == AllDigits(p) /\ Len(p) \in lens

\* the parts are three runs of digits of the given lengths
AreDigitRuns(p, first, second, third) ==
  Len(p) = 3 /\ IsDigitRun(p[1], first) /\ IsDigitRun(p[2], second) /\ IsDigitRun(p[3], third)

\* /^(\d{4})-(\d{1,2})-(\d{1,2})$/
MatchesYmd(s) == AreDigitRuns(SplitAt(s, "-"), {4}, 1..2, 1..2)

\* /^(\d{1,2})\/(\d{1,2})\/(\d{4})$/
MatchesSlash(s) == AreDigitRuns(SplitAt(s, "/"), 1..2, 1..2, {4})

\* a faulty variant of parseDate's slash dates: always M/D/YYYY
SlashDateUs(z, a, b, y) == NewLocalDate(z, y, a - 1, b)

\* parseDate on a/b/y: D/M/YYYY when a cannot be a month and b can, M/D/YYYY otherwise
SlashDate(z, a, b, y) ==
  IF a > 12 /\ b >= 1 /\ b <= 12 THEN NewLocalDate(z, y, b - 1, a)
  ELSE NewLocalDate(z, y, a - 1, b)

\* ExcelParser.parseDate in a host whose getTimezoneOffset() is z: a Date value, or
\* Null.  A number is an Excel serial; a numeric string is one when it is plausible
\* (20000..80000); 'YYYY-MM-DD' is new Date(y, m - 1, d); a/b/YYYY is D/M/YYYY when
\* a cannot be a month and M/D/YYYY otherwise; any other text goes to new Date(s).
parseDate(z, dateVal) ==
  LET serialText(n100) ==
        IF n100 >= 20000 * 100 /\ n100 <= 80000 * 100 THEN SerialToDate(n100) ELSE Null
      ymd(p) == NewLocalDate(z, DigitsToNat(p[1]), DigitsToNat(p[2]) - 1, DigitsToNat(p[3]))
      slashParts(p) == SlashDate(z, DigitsToNat(p[1]), DigitsToNat(p[2]), DigitsToNat(p[3]))
      text(s) ==
        IF s = <<>> THEN Null
        ELSE IF IsNumericText(s) THEN serialText(NumberOfText(s).n)
        ELSE IF MatchesYmd(s) THEN ymd(SplitAt(s, "-"))
        ELSE IF MatchesSlash(s) THEN slashParts(SplitAt(s, "/"))
        ELSE NativeDate(z, s)
  IN IF dateVal.k = "num" THEN SerialToDate(dateVal.n)
     ELSE IF dateVal.k = "date" THEN dateVal
     ELSE IF dateVal.k # "str" THEN Null
     ELSE text(Trim(dateVal.s))

\* /^(\d{1,2}):(\d{2})(?::(\d{2}))?(?:\s*(AM|PM))?$/i and /^(\d{1,2})(\d{2})$/ on the
\* trimmed text: <<hours, minutes, ampm>>, or <<>> when neither matches
TimeMatch(s) ==
  LET parts(p, ampm) ==
        IF Len(p) \in 2..3 /\ IsDigitRun(p[1], 1..2) /\ IsDigitRun(p[2], {2})
           /\ (Len(p) = 3 => IsDigitRun(p[3], {2}))
          THEN <<DigitsToNat(p[1]), DigitsToNat(p[2]), ampm>>
        ELSE IF IsDigitRun(s, 3..4)
          THEN <<DigitsToNat(SubSeq(s, 1, Len(s) - 2)), DigitsToNat(SubSeq(s, Len(s) - 1, Len(s))), "">>
        ELSE <<>>
      suffixed(ampm) ==
        parts(SplitAt(IF ampm = "" THEN s ELSE TrimEnd(SubSeq(s, 1, Len(s) - 2)), ":"), ampm)
  IN suffixed(IF EndsWith(ToLower(s), <<"a","m">>) THEN "AM"
              ELSE IF EndsWith(ToLower(s), <<"p","m">>) THEN "PM" ELSE "")

\* ExcelParser.parseTime(date, timeStr): a Date value, or Null; 12-hour times are
\* turned into 24-hour ones, then result.setHours(hours, minutes, 0, 0)
parseTime(z, date, timeStr) ==
  LET hours24(hours, ampm) ==
        IF ampm = "PM" /\ hours < 12 THEN hours + 12
        ELSE IF ampm = "AM" /\ hours = 12 THEN 0
        ELSE hours
      onDate(m) ==
        IF m = <<>> THEN Null ELSE DateVal(SetHours(z, date.n, hours24(m[1], m[3]), m[2]))
  IN IF timeStr.k = "date" THEN timeStr
     ELSE IF timeStr.k # "str" THEN Null
     ELSE onDate(TimeMatch(Trim(timeStr.s)))

\* date-utils.calculateDuration: whole minutes from start to end
calculateDuration(startTime, endTime) == endTime.n - startTime.n

\* date-utils.isValidDuration
isValidDuration(minutes) == minutes > 0 /\ minutes % 15 = 0

(* --------------------------- entity resolution ------------------------- *)

\* a faulty variant of IdsByName: the lookup never finds a row
IdsByNameNone(table, name) == {}

\* the ids of the rows of a table whose name is `name` (eq(table.name, name))
IdsByName(table, name) == {id \in 1..Len(table) : table[id] = name}

\* findFirst: the first matching row's id, 0 when there is none
FirstId(ids) == IF ids = {} THEN 0 ELSE CHOOSE id \in ids : \A other \in ids : id <= other

\* ExcelParser.getOrCreateDeveloper: [id, table]
getOrCreateDeveloper(table, name) ==
  LET existing == FirstId(IdsByName(table, name))
  IN IF existing # 0 THEN [id |-> existing, table |-> table]
     ELSE [id |-> Len(table) + 1, table |-> Append(table, name)]

\* ExcelParser.getOrCreateProject: [id, table]
getOrCreateProject(table, name) ==
  LET existing == FirstId(IdsByName(table, name))
  IN IF existing # 0 THEN [id |-> existing, table |-> table]
     ELSE [id |-> Len(table) + 1, table |-> Append(table, name)]

\* a faulty variant of getOrCreateTask: the name is matched whatever its case
getOrCreateTaskAnyCase(table, projectId, name) ==
  LET existing == FirstId({id \in 1..Len(table) :
                             table[id].projectId = projectId /\ ToLower(table[id].name) = ToLower(name)})
  IN IF existing # 0 THEN [id |-> existing, table |-> table]
     ELSE [id |-> Len(table) + 1, table |-> Append(table, [projectId |-> projectId, name |-> name])]

\* ExcelParser.getOrCreateTask: [id, table]
getOrCreateTask(table, projectId, name) ==
  LET existing == FirstId(IdsByName(table, [projectId |-> projectId, name |-> name]))
  IN IF existing # 0 THEN [id |-> existing, table |-> table]
     ELSE [id |-> Len(table) + 1, table |-> Append(table, [projectId |-> projectId, name |-> name])]

\* parseRow: "mode === 'import' ? await this.getOrCreateDeveloper(name) : 0"
resolveDeveloper(mode, table, name) ==
  IF mode = "import" THEN getOrCreateDeveloper(table, name) ELSE [id |-> 0, table |-> table]

\* a faulty variant of parseRow's project lookup: get-or-create whatever the mode
createProjectAlways(mode, table, name) == getOrCreateProject(table, name)

\* parseRow: "mode === 'import' ? await this.getOrCreateProject(name) : 0"
resolveProject(mode, table, name) ==
  IF mode = "import" THEN getOrCreateProject(table, name) ELSE [id |-> 0, table |-> table]

\* parseRow: "mode === 'import' ? await this.getOrCreateTask(projectId, name) : undefined"
resolveTask(mode, table, projectId, name) ==
  IF mode = "import" THEN getOrCreateTask(table, projectId, name) ELSE [id |-> 0, table |-> table]

(* ---------------------------- column names ----------------------------- *)

\* the canonical fields, in the order of normalizeColumnNames' else-if chain
Fields == <<"developer", "project", "task", "date", "startTime", "endTime", "durationMinutes", "notes">>

\* key.toLowerCase().trim().replace(/\s+/g, ' ')
LowerKey(key) == CollapseSpaces(Trim(ToLower(key)))

\* normalizeColumnNames: the canonical field a header key maps to, "" when none (the
\* else-if chain on the key, lower-cased, trimmed, inner white space collapsed)
KeyField(key) ==
  LET field(k) ==
        IF k \in {<<"d","e","v","e","l","o","p","e","r">>, <<"d","e","v","e","l","o","p","e","r"," ","n","a","m","e">>, <<"d","e","v">>, <<"r","e","s","o","u","r","c","e">>, <<"e","m","p","l","o","y","e","e">>} THEN "developer"
        ELSE IF k \in {<<"p","r","o","j","e","c","t">>, <<"p","r","o","j","e","c","t"," ","n","a","m","e">>, <<"p","r","o","j">>, <<"p","r","o","j","e","c","t"," ","c","o","d","e">>} THEN "project"
        ELSE IF k \in {<<"t","a","s","k">>, <<"t","a","s","k"," ","n","a","m","e">>} \/ Includes(k, <<"a","c","t","i","v","i","t","y">>) THEN "task"
        ELSE IF k = <<"d","a","t","e">> \/ Includes(k, <<"w","o","r","k"," ","d","a","t","e">>) THEN "date"
        ELSE IF k \in {<<"s","t","a","r","t">>, <<"s","t","a","r","t"," ","t","i","m","e">>, <<"b","e","g","i","n">>} THEN "startTime"
        ELSE IF k \in {<<"e","n","d">>, <<"e","n","d"," ","t","i","m","e">>, <<"f","i","n","i","s","h">>} THEN "endTime"
        ELSE IF Includes(k, <<"d","u","r","a","t","i","o","n">>) \/ Includes(k, <<"m","i","n","u","t","e","s">>) \/ k \in {<<"m","i","n","s">>, <<"m","i","n">>}
          THEN "durationMinutes"
        ELSE IF Includes(k, <<"n","o","t","e">>) \/ Includes(k, <<"d","e","s","c">>) \/ Includes(k, <<"c","o","m","m","e","n","t">>) \/ k = <<"n","o","t","e","s">>
          THEN "notes"
        ELSE ""
  IN field(LowerKey(key))

\* the header keys of the row objects of the model: the row-based keys, the keys of
\* the rows synthesized from a weekly grid, sheet_to_json's keys for empty headers
KnownKeys ==
  {<<"D","e","v","e","l","o","p","e","r">>, <<"P","r","o","j","e","c","t">>, <<"T","a","s","k">>, <<"D","a","t","e">>, <<"D","u","r","a","t","i","o","n">>, <<"N","o","t","e","s">>, <<"S","t","a","r","t"," ","T","i","m","e">>,
   <<"E","n","d"," ","T","i","m","e">>, <<"E","m","p","l","o","y","e","e">>, <<"P","r","o","j","e","c","t"," ","N","a","m","e">>, <<"W","o","r","k"," ","D","a","t","e">>, <<"S","t","a","r","t">>, <<"E","n","d">>, <<"H","o","u","r","s">>,
   <<"_","_","E","M","P","T","Y">>, <<"_","_","E","M","P","T","Y","_","1">>}

\* KeyField, computed once for the known keys
KeyFieldTable == [key \in KnownKeys |-> KeyField(key)]

FieldOfKey(key) == IF key \in KnownKeys THEN KeyFieldTable[key] ELSE KeyField(key)

\* the value normalizeColumnNames leaves in field f: that of the last key that maps
\* to f, undefined when no key does
FieldValue(row, f) ==
  LET last(js) == IF js = {} THEN Undefined ELSE row[MaxOf(js)].val
  IN last({j \in 1..Len(row) : FieldOfKey(row[j].key) = f})

\* ExcelParser.normalizeColumnNames on a row object (a sequence of [key, val])
normalizeColumnNames(row) ==
  [developer |-> FieldValue(row, "developer"), project |-> FieldValue(row, "project"),
   task |-> FieldValue(row, "task"), date |-> FieldValue(row, "date"),
   startTime |-> FieldValue(row, "startTime"), endTime |-> FieldValue(row, "endTime"),
   durationMinutes |-> FieldValue(row, "durationMinutes"), notes |-> FieldValue(row, "notes")]

(* ------------------------------ parseRow ------------------------------- *)

\* JavaScript truthiness of a value
Truthy(v) ==
  CASE v.k = "str" -> v.s # <<>>
    [] v.k = "num" -> v.n # 0
    [] v.k = "date" -> TRUE
    [] OTHER -> FALSE

\* parseRow's isBlank: no field set, or every set field null, undefined or blank text
\* (a field that is not set reads undefined, so the test may run over all fields)
IsBlankValues(normalized) ==
  \A f \in Range(Fields) :
    IsNullish(normalized[f]) \/ (normalized[f].k = "str" /\ Trim(normalized[f].s) = <<>>)

\* a faulty variant of parseRows' catch: the message without its row number
BareError(rowNum, message) == message

\* "Row ${rowNum}: ${message}", parseRows' catch
RowError(rowNum, message) == <<"R","o","w"," ">> \o NatToStr(rowNum) \o <<":"," ">> \o message

\* a faulty variant of RowDuration: times that do not parse are reported as missing
RowDurationOrMissing(z, normalized, date) ==
  IF ~IsNullish(normalized["durationMinutes"]) /\ normalized["durationMinutes"] # Str(<<>>)
    THEN [ok |-> TRUE, minutes |-> ParseInt(ToStr(normalized["durationMinutes"])), message |-> <<>>]
  ELSE IF /\ Truthy(normalized["startTime"]) /\ Truthy(normalized["endTime"])
          /\ parseTime(z, date, normalized["startTime"]) # Null
          /\ parseTime(z, date, normalized["endTime"]) # Null
    THEN [ok |-> TRUE,
          minutes |-> [k |-> "int", s |-> <<>>,
                       n |-> calculateDuration(parseTime(z, date, normalized["startTime"]),
                                               parseTime(z, date, normalized["endTime"]))],
          message |-> <<>>]
  ELSE [ok |-> FALSE, minutes |-> NaN,
        message |-> <<"M","u","s","t"," ","p","r","o","v","i","d","e"," ","e","i","t","h","e","r"," ","d","u","r","a","t","i","o","n"," ","o","r"," ","s","t","a","r","t","/","e","n","d"," ","t","i","m","e","s">>]

\* parseRow's duration: explicit duration first, else start and end; [ok, minutes, message]
RowDuration(z, normalized, date) ==
  LET between(startTime, endTime) ==
        IF startTime = Null \/ endTime = Null
          THEN [ok |-> FALSE, minutes |-> NaN, message |-> <<"I","n","v","a","l","i","d"," ","s","t","a","r","t"," ","o","r"," ","e","n","d"," ","t","i","m","e">>]
          ELSE [ok |-> TRUE,
                minutes |-> [k |-> "int", s |-> <<>>, n |-> calculateDuration(startTime, endTime)],
                message |-> <<>>]
  IN IF ~IsNullish(normalized["durationMinutes"]) /\ normalized["durationMinutes"] # Str(<<>>)
       THEN [ok |-> TRUE, minutes |-> ParseInt(ToStr(normalized["durationMinutes"])),
             message |-> <<>>]
     ELSE IF Truthy(normalized["startTime"]) /\ Truthy(normalized["endTime"])
       THEN between(parseTime(z, date, normalized["startTime"]),
                    parseTime(z, date, normalized["endTime"]))
     ELSE [ok |-> FALSE, minutes |-> NaN,
           message |-> <<"M","u","s","t"," ","p","r","o","v","i","d","e"," ","e","i","t","h","e","r"," ","d","u","r","a","t","i","o","n"," ","o","r"," ","s","t","a","r","t","/","e","n","d"," ","t","i","m","e","s">>]

\* a faulty variant of parseRow's validation: the multiple-of-15 test is left out
PositiveDurationError(minutes) ==
  IF minutes.k # "nan" /\ minutes.n <= 0 THEN <<"D","u","r","a","t","i","o","n"," ","m","u","s","t"," ","b","e"," ","g","r","e","a","t","e","r"," ","t","h","a","n"," ","0">> ELSE <<>>

\* parseRow's validation of the duration: the message of the error thrown, <<>> when valid
DurationError(minutes) ==
  IF minutes.k # "nan" /\ minutes.n <= 0 THEN <<"D","u","r","a","t","i","o","n"," ","m","u","s","t"," ","b","e"," ","g","r","e","a","t","e","r"," ","t","h","a","n"," ","0">>
  ELSE IF minutes.k = "nan" \/ minutes.n % 15 # 0 THEN <<"D","u","r","a","t","i","o","n"," ","m","u","s","t"," ","b","e"," ","a"," ","m","u","l","t","i","p","l","e"," ","o","f"," ","1","5"," ","m","i","n","u","t","e","s">>
  ELSE <<>>

\* a || b for a parsed time a
OrElse(a, b) == IF a = Null THEN b ELSE a

\* parseRow's start time: the parsed start time, else the date (local midnight)
RowStartTime(z, normalized, date) ==
  IF Truthy(normalized["startTime"]) THEN OrElse(parseTime(z, date, normalized["startTime"]), date)
  ELSE date

\* parseRow throws, the store tables being d, p, t by then
Thrown(message, d, p, t) ==
  [kind |-> "error", message |-> message, developers |-> d, projects |-> p, tasks |-> t]

\* ExcelParser.parseRow on the store tables (d, p, t): what it returns or throws, and
\* the tables it leaves.  kind is "blank" (returns null), "error" (throws message)
\* or "entry" (returns entry and preview).  In the order of the source: the column
\* names are normalized; a blank row returns null; developer, project and date are
\* required and the date must parse; developer, project and the optional task are
\* resolved (created, in import mode); the duration is read and validated; the
\* entry and its preview are built.
parseRow(z, row, rowNum, defaultDeveloper, mode, d, p, t) ==
  LET notes(normalized) == IF Truthy(normalized["notes"]) THEN normalized["notes"] ELSE Undefined
      finish(normalized, developerName, dev, prj, tsk, dur, startTime) ==
        IF ~dur.ok THEN Thrown(dur.message, dev.table, prj.table, tsk.table)
        ELSE IF DurationError(dur.minutes) # <<>>
          THEN Thrown(DurationError(dur.minutes), dev.table, prj.table, tsk.table)
        ELSE [kind |-> "entry",
              entry |-> [developerId |-> dev.id, projectId |-> prj.id, taskId |-> tsk.id,
                         startTime |-> startTime, durationMinutes |-> dur.minutes.n,
                         description |-> notes(normalized)],
              preview |-> [developer |-> developerName, project |-> normalized["project"],
                           task |-> normalized["task"], startTime |-> startTime,
                           durationMinutes |-> dur.minutes.n, notes |-> notes(normalized)],
              developers |-> dev.table, projects |-> prj.table, tasks |-> tsk.table]
      underProject(normalized, developerName, date, dev, prj) ==
        finish(normalized, developerName, dev, prj,
               IF Truthy(normalized["task"])
                 THEN resolveTask(mode, t, prj.id, ToStr(normalized["task"]))
                 ELSE [id |-> 0, table |-> t],
               RowDuration(z, normalized, date), RowStartTime(z, normalized, date))
      dated(normalized, developerName, date) ==
        IF date = Null THEN Thrown(<<"I","n","v","a","l","i","d"," ","d","a","t","e",":"," ">> \o ToStr(normalized["date"]), d, p, t)
        ELSE underProject(normalized, developerName, date,
                          resolveDeveloper(mode, d, ToStr(developerName)),
                          resolveProject(mode, p, ToStr(normalized["project"])))
      required(normalized, developerName) ==
        IF ~Truthy(developerName) THEN Thrown(<<"M","i","s","s","i","n","g"," ","d","e","v","e","l","o","p","e","r"," ","n","a","m","e">>, d, p, t)
        ELSE IF ~Truthy(normalized["project"]) THEN Thrown(<<"M","i","s","s","i","n","g"," ","p","r","o","j","e","c","t"," ","n","a","m","e">>, d, p, t)
        ELSE IF ~Truthy(normalized["date"]) THEN Thrown(<<"M","i","s","s","i","n","g"," ","d","a","t","e">>, d, p, t)
        ELSE dated(normalized, developerName, parseDate(z, normalized["date"]))
      ofNormalized(normalized) ==
        IF IsBlankValues(normalized)
          THEN [kind |-> "blank", developers |-> d, projects |-> p, tasks |-> t]
          ELSE required(normalized,
                        IF Truthy(normalized["developer"]) THEN normalized["developer"]
                        ELSE defaultDeveloper)
  IN ofNormalized(normalizeColumnNames(row))

(* ------------------------------ parseRows ------------------------------ *)

\* the number of rows kept for the preview, ExcelParser.parseRows
PreviewLimit == 10

\* parseRows' default for opts.firstDataRowNumber
DefaultFirstDataRow == 2

\* /^\d{1,2}[sep]\d{1,2}[sep]\d{2,4}$/
MatchesShortDate(v, sep) == AreDigitRuns(SplitAt(v, sep), 1..2, 1..2, 2..4)

\* /^\d{4}-\d{2}-\d{2}$/
MatchesIsoDay(v) == AreDigitRuns(SplitAt(v, "-"), {4}, {2}, {2})

\* ExcelParser.shouldIgnoreProjectToken
shouldIgnoreProjectToken(value) ==
  LET ignores(v, lower) ==
        \/ v = <<>>
        \/ lower = <<"p","r","o","j","e","c","t"," ","c","o","d","e">>
        \/ StartsWith(lower, <<"d","a","i","l","y"," ","t","o","t","a","l","s">>)
        \/ Includes(lower, <<"w","e","e","k"," ","e","n","d","i","n","g">>)
        \/ Includes(lower, <<"t","o","t","a","l">>)
        \/ MatchesIsoDay(v)
        \/ MatchesShortDate(v, "/")
        \/ MatchesShortDate(v, "-")
        \/ (EndsWith(lower, <<":">>) /\ Includes(lower, <<"d","a","i","l","y">>))
      ofTrimmed(v) == ignores(v, ToLower(v))
  IN ofTrimmed(Trim(value))

\* typeof x === 'string' ? x.trim() : x != null ? String(x).trim() : ''
TrimmedText(v) == IF IsNullish(v) THEN <<>> ELSE Trim(ToStr(v))

\* opts?.mode ?? 'import'
ModeOrDefault(mode) == IF mode = "undefined" THEN "import" ELSE mode

\* a faulty variant of parseRows' row number: the position in the list, from 1
RowNumberFromOne(firstDataRowNumber, i) == i + 1

\* parseRows: "const rowNum = firstDataRowNumber + i" (i counts from 0)
RowNumber(firstDataRowNumber, i) == firstDataRowNumber + i

\* parseRows: the developer candidate of a row
DevCandidate(normalized, defaultDeveloper) ==
  TrimmedText(IF IsNullish(defaultDeveloper) THEN normalized["developer"]
              ELSE defaultDeveloper)

\* parseRows: the project candidate of a row, <<>> when it is ignored
ProjCandidate(normalized) ==
  LET kept(proj) == IF shouldIgnoreProjectToken(proj) THEN <<>> ELSE proj
  IN kept(TrimmedText(normalized["project"]))

\* a faulty variant of parseRows' preview: every valid row is pushed
PushPreviewUnbounded(preview, item) == Append(preview, item)

\* parseRows: "if (preview.length < 10) preview.push(parsed.preview)"
PushPreview(preview, item) ==
  IF Len(preview) < PreviewLimit THEN Append(preview, item) ELSE preview

\* parseRows' locals before the loop
NewRun ==
  [i |-> 0, entries |-> <<>>, preview |-> <<>>, errors |-> <<>>, warnings |-> <<>>,
   developerCandidates |-> {}, projectCandidates |-> {}]

\* one pass of parseRows' loop body on row i (0-based) against tables d, p, t: the
\* locals after it, with the tables parseRow left
ScanRow(z, r, rows, firstDataRowNumber, defaultDeveloper, mode, d, p, t) ==
  LET with(candidates, c) == IF c = <<>> THEN candidates ELSE candidates \cup {c}
      scanned(rowNum, dc, pcand, parsed) ==
        [locals |->
           [i |-> r.i + 1,
            entries |-> IF parsed.kind = "entry" THEN Append(r.entries, parsed.entry)
                        ELSE r.entries,
            preview |-> IF parsed.kind = "entry" THEN PushPreview(r.preview, parsed.preview)
                        ELSE r.preview,
            errors |-> IF parsed.kind = "error"
                         THEN Append(r.errors, RowError(rowNum, parsed.message))
                         ELSE r.errors,
            warnings |-> r.warnings,
            developerCandidates |-> with(r.developerCandidates, dc),
            projectCandidates |-> with(r.projectCandidates, pcand)],
         developers |-> parsed.developers, projects |-> parsed.projects,
         tasks |-> parsed.tasks]
      numbered(row, normalizedForDev, rowNum) ==
        scanned(rowNum, DevCandidate(normalizedForDev, defaultDeveloper),
                ProjCandidate(normalizedForDev),
                parseRow(z, row, rowNum, defaultDeveloper, mode, d, p, t))
  IN numbered(rows[r.i + 1], normalizeColumnNames(rows[r.i + 1]),
              RowNumber(firstDataRowNumber, r.i))

\* db.query.projects.findMany({ where: inArray(projects.name, names) }): the names found
ExistingProjects(table, names) == {n \in names : IdsByName(table, n) # {}}

\* a faulty variant of the project check: every name is taken to be missing
InvalidAll(all, table) == all

\* the names of a sorted list that are not in the store
InvalidOf(all, table) ==
  SelectSeq(all, LAMBDA n : n \notin ExistingProjects(table, Range(all)))

\* names.join(', ')
RECURSIVE JoinNames(_)
JoinNames(names) ==
  IF names = <<>> THEN <<>>
  ELSE IF Len(names) = 1 THEN names[1]
  ELSE names[1] \o <<","," ">> \o JoinNames(Tail(names))

\* `Invalid projects (${invalid.length}/${all.length}): ${invalid.join(', ')}`
InvalidProjectsLine(invalid, all) ==
  <<"I","n","v","a","l","i","d"," ","p","r","o","j","e","c","t","s"," ","(">> \o NatToStr(Len(invalid)) \o <<"/">> \o NatToStr(Len(all)) \o <<")",":"," ">>
    \o JoinNames(invalid)

\* parseRows: detectedDeveloper from the sheet-level default and the candidates
DetectDeveloper(defaultDeveloper, candidates) ==
  IF defaultDeveloper.k = "str" /\ Trim(defaultDeveloper.s) # <<>>
    THEN Str(Trim(defaultDeveloper.s))
  ELSE IF Cardinality(candidates) = 1 THEN Str(CHOOSE c \in candidates : TRUE)
  ELSE Null

\* the ParseResult parseRows returns once the loop is over: the developer is
\* detected, the project candidates are sorted and, in preview mode, checked
\* against the store
ParseRowsResult(r, defaultDeveloper, mode, projectTable) ==
  LET found(detectedDeveloper, allProjects, invalidProjects) ==
        [entries |-> r.entries,
         sheetName |-> <<>>,
         detectedDeveloper |-> detectedDeveloper,
         developers |-> IF detectedDeveloper = Null THEN <<>> ELSE <<detectedDeveloper.s>>,
         projects |-> [all |-> allProjects, invalid |-> invalidProjects],
         preview |-> r.preview,
         errors |-> IF invalidProjects # <<>>
                      THEN <<InvalidProjectsLine(invalidProjects, allProjects)>> \o r.errors
                      ELSE r.errors,
         warnings |-> r.warnings]
      sorted(allProjects) ==
        found(DetectDeveloper(defaultDeveloper, r.developerCandidates), allProjects,
              IF mode = "preview" /\ allProjects # <<>>
                THEN InvalidOf(allProjects, projectTable) ELSE <<>>)
  IN sorted(SortNames(r.projectCandidates))

(* ------------------------------- sheets -------------------------------- *)

\* parseFile's headerTokens
headerTokens ==
  {<<"d","e","v","e","l","o","p","e","r">>, <<"d","e","v","e","l","o","p","e","r"," ","n","a","m","e">>, <<"d","e","v">>, <<"r","e","s","o","u","r","c","e">>, <<"e","m","p","l","o","y","e","e">>, <<"p","r","o","j","e","c","t">>,
   <<"p","r","o","j","e","c","t"," ","n","a","m","e">>, <<"p","r","o","j">>, <<"t","a","s","k">>, <<"t","a","s","k"," ","n","a","m","e">>, <<"a","c","t","i","v","i","t","y">>, <<"d","a","t","e">>, <<"w","o","r","k"," ","d","a","t","e">>,
   <<"s","t","a","r","t">>, <<"s","t","a","r","t"," ","t","i","m","e">>, <<"b","e","g","i","n">>, <<"e","n","d">>, <<"e","n","d"," ","t","i","m","e">>, <<"f","i","n","i","s","h">>, <<"d","u","r","a","t","i","o","n">>,
   <<"m","i","n","u","t","e","s">>, <<"m","i","n","u","t","e">>, <<"m","i","n","s">>, <<"m","i","n">>, <<"h","o","u","r","s">>, <<"h","r","s">>, <<"n","o","t","e","s">>, <<"n","o","t","e">>, <<"d","e","s","c">>,
   <<"d","e","s","c","r","i","p","t","i","o","n">>, <<"c","o","m","m","e","n","t">>}

\* convertWeeklyGridToRowObjects' weekdayAliases: token |-> day index (0 = Mon .. 6 = Sun)
weekdayAliases ==
  {<<<<"m","o","n">>, 0>>, <<<<"m","o","n","d","a","y">>, 0>>, <<<<"t","u","e">>, 1>>, <<<<"t","u","e","s">>, 1>>, <<<<"t","u","e","s","d","a","y">>, 1>>,
   <<<<"w","e","d">>, 2>>, <<<<"w","e","d","n","e","s","d","a","y">>, 2>>, <<<<"t","h","u">>, 3>>, <<<<"t","h","u","r">>, 3>>, <<<<"t","h","u","r","s">>, 3>>,
   <<<<"t","h","u","r","s","d","a","y">>, 3>>, <<<<"f","r","i">>, 4>>, <<<<"f","r","i","d","a","y">>, 4>>, <<<<"s","a","t">>, 5>>, <<<<"s","a","t","u","r","d","a","y">>, 5>>,
   <<<<"s","u","n">>, 6>>, <<<<"s","u","n","d","a","y">>, 6>>}

\* parseFile's weekdayTokens
weekdayTokens == {a[1] : a \in weekdayAliases}

\* weekdayAliases[token], -1 when the token is no weekday
WeekdayIndex(token) ==
  IF token \in weekdayTokens THEN (CHOOSE a \in weekdayAliases : a[1] = token)[2] ELSE -1

\* headerTokens.some((t) => cell.includes(t))
MatchesHeaderToken(cell) == \E t \in headerTokens : Includes(cell, t)

\* matrix[r][c] with 0-based indices, undefined outside the matrix
CellAt(matrix, r, c) ==
  IF r >= 0 /\ r < Len(matrix) /\ c >= 0 /\ c < Len(matrix[r + 1]) THEN matrix[r + 1][c + 1]
  ELSE Undefined

\* the 0-based indices of the first n rows of a matrix
RowsUpTo(matrix, n) == 0..((IF Len(matrix) < n THEN Len(matrix) ELSE n) - 1)

\* the 0-based column indices of row r
ColsOf(matrix, r) == 0..(Len(matrix[r + 1]) - 1)

\* analyzeSheet: the first row, among the first 15, with the highest match count
\* (the cells of the row that include a header token): [row, count], row -1 and
\* count 0 when no row matches; "if (matchCount > bestMatchCount)" keeps the first
BestHeader(matrix) ==
  LET matchCount(r) ==
        Cardinality({c \in ColsOf(matrix, r) :
                       normalizeCell(CellAt(matrix, r, c)) # <<>>
                       /\ MatchesHeaderToken(normalizeCell(CellAt(matrix, r, c)))})
      first(counts, best) ==
        IF best = 0 THEN [row |-> -1, count |-> 0]
        ELSE [row |-> MinOf({r \in DOMAIN counts : counts[r] = best}), count |-> best]
      ofCounts(counts) ==
        first(counts, IF DOMAIN counts = {} THEN 0 ELSE MaxOf({counts[r] : r \in DOMAIN counts}))
  IN ofCounts([r \in RowsUpTo(matrix, 15) |-> matchCount(r)])

\* the first of a non-empty set of (row, column) positions, in scan order
FirstInScan(hits) ==
  LET precedes(a, b) == a[1] < b[1] \/ (a[1] = b[1] /\ a[2] < b[2])
  IN CHOOSE h \in hits : \A o \in hits \ {h} : precedes(h, o)

\* the positions of the first n rows of a matrix
Positions(matrix, n) == {<<r, c>> : r \in RowsUpTo(matrix, n), c \in 0..(Len(matrix[1]) - 1)}

\* analyzeSheet: the sheet-level developer, the text right of the first label cell
\* (developer / developer name / name / resource / employee), among the first
\* scanRows rows, that has text right of it; undefined without one
SheetDeveloper(matrix, labels, scanRows) ==
  LET rightOf(rc) == Str(Trim(CellAt(matrix, rc[1], rc[2] + 1).s))
      at(hits) == IF hits = {} THEN Undefined ELSE rightOf(FirstInScan(hits))
  IN at({rc \in Positions(matrix, scanRows) :
           /\ normalizeCell(CellAt(matrix, rc[1], rc[2])) \in labels
           /\ CellAt(matrix, rc[1], rc[2] + 1).k = "str"
           /\ Trim(CellAt(matrix, rc[1], rc[2] + 1).s) # <<>>})

\* some cell of the first n rows satisfies the test on its normalized text
SomeCell(matrix, n, Test(_)) ==
  \E r \in RowsUpTo(matrix, n) : \E c \in ColsOf(matrix, r) : Test(normalizeCell(CellAt(matrix, r, c)))

\* analyzeSheet's hourLikeCount: cells (first 120 rows, 30 columns) with a number in
\* (0, 24]; "typeof v === 'number' ? v : typeof v === 'string' ? Number(v) : NaN"
HourLikeCount(matrix) ==
  LET number(v) == IF v.k = "num" THEN v ELSE IF v.k = "str" THEN NumberOfText(v.s) ELSE NaN
      isHourLike(n) == n.k = "num" /\ n.n > 0 /\ n.n <= 24 * 100
  IN Cardinality({rc \in {<<r, c>> : r \in RowsUpTo(matrix, 120), c \in 0..29} :
                    isHourLike(number(CellAt(matrix, rc[1], rc[2])))})

\* parseFile's analyzeSheet: the SheetAnalysis of a sheet, with its score
analyzeSheet(sheet) ==
  LET isMetadataName(name) ==
        \E w \in {<<"v","a","r","i","a","b","l","e">>, <<"l","o","o","k","u","p">>, <<"l","i","s","t">>, <<"c","o","n","f","i","g">>, <<"s","e","t","t","i","n","g","s">>, <<"m","e","t","a">>} :
          Includes(ToLower(name), w)
      score(bestMatchCount, looksLikeWeeklyGrid, hasWeekEndingLabel, hasProjectCodeHeader,
            hourLikeCount, defaultDeveloper, namePenalty) ==
        bestMatchCount + (IF looksLikeWeeklyGrid THEN 3 ELSE 0)
          + (IF hasWeekEndingLabel THEN 2 ELSE 0) + (IF hasProjectCodeHeader THEN 2 ELSE 0)
          + (IF hourLikeCount >= 3 THEN 2 ELSE 0) + (IF defaultDeveloper # Undefined THEN 1 ELSE 0)
          - namePenalty
      analysis(best, defaultDeveloper, looksLikeWeeklyGrid, hasWeekEndingLabel,
               hasProjectCodeHeader) ==
        [name |-> sheet.name, matrix |-> sheet.matrix, bestHeaderRow |-> best.row,
         bestMatchCount |-> best.count, defaultDeveloper |-> defaultDeveloper,
         looksLikeWeeklyGrid |-> looksLikeWeeklyGrid,
         score |-> score(best.count, looksLikeWeeklyGrid, hasWeekEndingLabel,
                         hasProjectCodeHeader, HourLikeCount(sheet.matrix), defaultDeveloper,
                         IF isMetadataName(sheet.name) THEN 2 ELSE 0)]
  IN analysis(BestHeader(sheet.matrix),
              SheetDeveloper(sheet.matrix,
                             {<<"d","e","v","e","l","o","p","e","r">>, <<"d","e","v","e","l","o","p","e","r"," ","n","a","m","e">>, <<"n","a","m","e">>, <<"r","e","s","o","u","r","c","e">>, <<"e","m","p","l","o","y","e","e">>}, 30),
              SomeCell(sheet.matrix, 20, LAMBDA c : c \in weekdayTokens),
              SomeCell(sheet.matrix, 20, LAMBDA c : Includes(c, <<"w","e","e","k"," ","e","n","d","i","n","g">>)),
              SomeCell(sheet.matrix, 30, LAMBDA c : c = <<"p","r","o","j","e","c","t"," ","c","o","d","e">>))

\* a faulty variant of the reduce step: the first sheet is kept
KeepFirst(best, cur) == best

\* one step of parseFile's reduce over the analyses
PickBetter(best, cur) ==
  IF cur.score > best.score THEN cur
  ELSE IF cur.score = best.score /\ cur.bestMatchCount > best.bestMatchCount THEN cur
  ELSE best

\* analyses.reduce(...) over a non-empty list: the selected analysis
RECURSIVE SelectFrom(_, _)
SelectFrom(best, rest) ==
  IF rest = <<>> THEN best ELSE SelectFrom(PickBetter(best, Head(rest)), Tail(rest))

SelectSheet(analyses) == SelectFrom(Head(analyses), Tail(analyses))

\* ExcelParser.extractProjectCodesFromMatrix: the codes below the first Project
\* Code header cell of the first 40 rows, ignored tokens left out, sorted
extractProjectCodesFromMatrix(matrix) ==
  LET below(h) ==
        SortNames({code \in {TrimmedText(CellAt(matrix, r, h[2])) : r \in (h[1] + 1)..(Len(matrix) - 1)} :
                     ~shouldIgnoreProjectToken(code)})
      under(hits) == IF hits = {} THEN <<>> ELSE below(FirstInScan(hits))
  IN under({rc \in Positions(matrix, 40) :
              normalizeCell(CellAt(matrix, rc[1], rc[2])) = <<"p","r","o","j","e","c","t"," ","c","o","d","e">>})

\* XLSX.utils.sheet_to_json(sheet, { raw: false, defval: null, range: headerRow }):
\* one object per non-empty row below the header row, keyed by the header cells:
\* their text, or __EMPTY, __EMPTY_1, ... for the empty ones (the sheets of the
\* model repeat no header text); an empty cell reads null
sheetToJson(matrix, headerRow) ==
  LET emptyKey(n) == IF n = 0 THEN <<"_","_","E","M","P","T","Y">> ELSE <<"_","_","E","M","P","T","Y","_">> \o NatToStr(n)
      headerKey(hr, c) ==
        IF ~IsNullish(CellAt(matrix, hr, c)) THEN ToStr(CellAt(matrix, hr, c))
        ELSE emptyKey(Cardinality({b \in 0..(c - 1) : IsNullish(CellAt(matrix, hr, b))}))
      cellOrNull(v) == IF IsNullish(v) THEN Null ELSE v
      rowObject(hr, r) ==
        [c \in 1..Len(matrix[hr + 1]) |->
           [key |-> headerKey(hr, c - 1), val |-> cellOrNull(CellAt(matrix, r, c - 1))]]
      rowObjects(hr, dataRows) == [j \in 1..Len(dataRows) |-> rowObject(hr, dataRows[j])]
      from(hr) ==
        IF Len(matrix) = 0 THEN <<>>
        ELSE rowObjects(hr, SelectSeq([j \in 1..(Len(matrix) - hr - 1) |-> hr + j],
                                      LAMBDA r : \E c \in ColsOf(matrix, r) :
                                                   ~IsNullish(CellAt(matrix, r, c))))
  IN from(IF headerRow >= 0 THEN headerRow ELSE 0)

(* ----------------------------- weekly grids ---------------------------- *)

\* s.match(/(\d{4}-\d{1,2}-\d{1,2})|(\d{1,2}\/\d{1,2}\/\d{4})/)?.[0]: the leftmost
\* match, the first alternative first, greedy; <<>> when there is none
FindDateIn(s) ==
  LET ymdEnds(i) == {j \in i..Len(s) : MatchesYmd(SubSeq(s, i, j))}
      slashEnds(i) == {j \in i..Len(s) : MatchesSlash(SubSeq(s, i, j))}
      from(i, ymd, slash) ==
        IF ymd # {} THEN SubSeq(s, i, MaxOf(ymd)) ELSE SubSeq(s, i, MaxOf(slash))
      leftmost(starts) ==
        IF starts = {} THEN <<>>
        ELSE from(MinOf(starts), ymdEnds(MinOf(starts)), slashEnds(MinOf(starts)))
  IN leftmost({i \in 1..Len(s) : ymdEnds(i) # {} \/ slashEnds(i) # {}})

\* convertWeeklyGridToRowObjects' isNumberLike
isNumberLike(v) ==
  \/ v.k = "num"
  \/ v.k = "str" /\ Trim(v.s) # <<>> /\ NumberOfText(v.s).k = "num"

\* convertWeeklyGridToRowObjects' toNumber, in hundredths
toNumber(v) == IF v.k = "num" THEN v ELSE NumberOfText(Trim(ToStr(v)))

\* a faulty variant of the conversion of hours: the minutes are truncated
HoursToMinutesTruncated(h100) == (h100 * 60) \div 100

\* Math.round(hours * 60) for hours in hundredths
HoursToMinutes(h100) == (h100 * 60 + 50) \div 100

\* a set of columns as the list of [dayIndex, col] in column order, one per day
\* index (the first column of each)
RECURSIVE DayColsFrom(_, _)
DayColsFrom(cols, day) ==
  IF cols = {} THEN <<>>
  ELSE LET c == MinOf(cols)
       IN <<[dayIndex |-> day[c], col |-> c]>>
            \o DayColsFrom({o \in cols : day[o] # day[c]}, day)

\* the day index of the first token of the cell at (r, c), -1 when it is no weekday
WeekdayOfCell(matrix, r, c) == WeekdayIndex(FirstToken(normalizeCell(CellAt(matrix, r, c))))

\* the weekday columns of row r: column |-> day index, for the cells whose first
\* token is a weekday
WeekdayCols(matrix, r) ==
  [c \in {c \in ColsOf(matrix, r) : WeekdayOfCell(matrix, r, c) >= 0} |-> WeekdayOfCell(matrix, r, c)]

\* "Column indices: C=2 project code, D=3 task label, E-K=4..10 day columns"
ProjectCodeDayCols ==
  <<[dayIndex |-> 5, col |-> 4], [dayIndex |-> 6, col |-> 5], [dayIndex |-> 0, col |-> 6],
    [dayIndex |-> 1, col |-> 7], [dayIndex |-> 2, col |-> 8], [dayIndex |-> 3, col |-> 9],
    [dayIndex |-> 4, col |-> 10]>>

\* step 1 of convertWeeklyGridToRowObjects: [headerRow, dayCols], from the first row,
\* among the first 30, with five weekdays or more, else from the first row, among
\* the first 40, with a Project Code cell; headerRow is -1 when there is neither
GridHeader(matrix) ==
  LET dayHeader(r, cols) == [headerRow |-> r, dayCols |-> DayColsFrom(DOMAIN cols, cols)]
      of(dayRows, codeRows) ==
        IF dayRows # {} THEN dayHeader(MinOf(dayRows), WeekdayCols(matrix, MinOf(dayRows)))
        ELSE IF codeRows # {} THEN [headerRow |-> MinOf(codeRows), dayCols |-> ProjectCodeDayCols]
        ELSE [headerRow |-> -1, dayCols |-> <<>>]
  IN of({r \in RowsUpTo(matrix, 30) :
           Cardinality({WeekdayCols(matrix, r)[c] : c \in DOMAIN WeekdayCols(matrix, r)}) >= 5},
        {r \in RowsUpTo(matrix, 40) :
           \E c \in ColsOf(matrix, r) : normalizeCell(CellAt(matrix, r, c)) = <<"p","r","o","j","e","c","t"," ","c","o","d","e">>})

\* the date text found in a cell, <<>> when none
DateTextOf(cellRaw) == IF cellRaw.k = "str" THEN FindDateIn(cellRaw.s) ELSE <<>>

\* step 2, one cell: the week-ending date the cell yields, Null when none: the date
\* embedded in its text when the text mentions the week, else the date of the cell
\* right of a "week ending" / "week of" label
WeekEndingAt(z, matrix, r, c) ==
  IF normalizeCell(CellAt(matrix, r, c)) = <<>> THEN Null
  ELSE OrElse(IF /\ DateTextOf(CellAt(matrix, r, c)) # <<>>
                 /\ \/ Includes(normalizeCell(CellAt(matrix, r, c)), <<"w","e","e","k">>)
                    \/ Includes(normalizeCell(CellAt(matrix, r, c)), <<"e","n","d","i","n","g">>)
                THEN parseDate(z, Str(DateTextOf(CellAt(matrix, r, c)))) ELSE Null,
              IF \/ Includes(normalizeCell(CellAt(matrix, r, c)), <<"w","e","e","k"," ","e","n","d","i","n","g">>)
                 \/ Includes(normalizeCell(CellAt(matrix, r, c)), <<"w","e","e","k"," ","o","f">>)
                THEN parseDate(z, CellAt(matrix, r, c + 1)) ELSE Null)

\* the week-ending date of the first of the cells that yield one
FirstWeekEnding(z, matrix, hits) ==
  IF hits = {} THEN Null
  ELSE WeekEndingAt(z, matrix, FirstInScan(hits)[1], FirstInScan(hits)[2])

\* step 2: the first week-ending date of the first 20 rows, in scan order
WeekEnding(z, matrix) ==
  FirstWeekEnding(z, matrix, {rc \in Positions(matrix, 20) :
                                WeekEndingAt(z, matrix, rc[1], rc[2]) # Null})

\* step 3: the explicit date of a weekday column, from the header text or the cell below
ExplicitDayDate(z, matrix, headerRow, col) ==
  OrElse(IF DateTextOf(CellAt(matrix, headerRow, col)) # <<>>
           THEN parseDate(z, Str(DateTextOf(CellAt(matrix, headerRow, col)))) ELSE Null,
         parseDate(z, CellAt(matrix, headerRow + 1, col)))

\* step 3: the explicit dates of the day columns
ExplicitDates(z, matrix, headerRow, dayCols) ==
  [i \in 1..Len(dayCols) |-> ExplicitDayDate(z, matrix, headerRow, dayCols[i].col)]

\* a faulty variant of DayDates: the dates are counted back from the week ending by
\* the weekday, Friday being the week ending
DayDatesByWeekday(z, matrix, headerRow, dayCols, weekEnding) ==
  LET explicit == ExplicitDates(z, matrix, headerRow, dayCols)
  IN [d \in 0..6 |->
        IF \E j \in 1..Len(dayCols) : explicit[j] # Null
          THEN IF \E i \in 1..Len(dayCols) : dayCols[i].dayIndex = d /\ explicit[i] # Null
                 THEN explicit[CHOOSE i \in 1..Len(dayCols) :
                                 dayCols[i].dayIndex = d /\ explicit[i] # Null]
                 ELSE Null
        ELSE IF \E i \in 1..Len(dayCols) : dayCols[i].dayIndex = d
          THEN DateVal(AddDays(weekEnding.n, ((d + 2) % 7) - 6))
        ELSE Null]

\* step 3: day index |-> date (Null when unknown).  The dates of the day columns are
\* the explicit ones when there is any, else counted back from the week ending,
\* which is the last day column; the last column of a day index wins
DayDates(z, matrix, headerRow, dayCols, weekEnding) ==
  LET colDates(explicit) ==
        [i \in 1..Len(dayCols) |->
           IF \E j \in 1..Len(dayCols) : explicit[j] # Null THEN explicit[i]
           ELSE DateVal(AddDays(weekEnding.n, dayCols[i].col - dayCols[Len(dayCols)].col))]
      last(dates, is) == IF is = {} THEN Null ELSE dates[MaxOf(is)]
      byDay(dates) ==
        [d \in 0..6 |->
           last(dates, {i \in 1..Len(dayCols) : dayCols[i].dayIndex = d /\ dates[i] # Null})]
  IN byDay(colDates(ExplicitDates(z, matrix, headerRow, dayCols)))

\* header.findIndex(pred) over the normalized header row: the first column whose
\* text includes one of the words, -1 when there is none
FindCol(matrix, headerRow, words) ==
  LET first(cols) == IF cols = {} THEN -1 ELSE MinOf(cols)
  IN first({c \in ColsOf(matrix, headerRow) :
              \E w \in words : Includes(normalizeCell(CellAt(matrix, headerRow, c)), w)})

\* the label cells (name / developer / developer name) of row r with text right of them
LabelledCols(matrix, r) ==
  {c \in ColsOf(matrix, r) :
     /\ normalizeCell(CellAt(matrix, r, c)) \in {<<"n","a","m","e">>, <<"d","e","v","e","l","o","p","e","r">>, <<"d","e","v","e","l","o","p","e","r"," ","n","a","m","e">>}
     /\ CellAt(matrix, r, c + 1).k = "str"
     /\ Trim(CellAt(matrix, r, c + 1).s) # <<>>}

\* step 5: the developer found by the second label scan (name / developer /
\* developer name): in the first row that has one, the last labelled value
GridDeveloper(matrix, defaultDeveloper) ==
  LET lastLabelled(rs) ==
        IF rs = {} THEN Undefined
        ELSE Str(Trim(CellAt(matrix, MinOf(rs), MaxOf(LabelledCols(matrix, MinOf(rs))) + 1).s))
  IN IF Truthy(defaultDeveloper) THEN defaultDeveloper
     ELSE lastLabelled({r \in RowsUpTo(matrix, 30) : LabelledCols(matrix, r) # {}})

\* isPlausibleHeaderDate: the value parses to a date of the years 2000..2100
isPlausibleHeaderDate(z, v) ==
  LET plausible(d) == d # Null /\ YearAtLeast(z, d.n, 2000) /\ ~YearAtLeast(z, d.n, 2101)
  IN plausible(parseDate(z, v))

\* step 5, one grid row: the row objects and warnings it yields.  Blank rows, total
\* rows and rows without project or task are skipped; each day cell with positive
\* hours yields a row object when its day has a date and a warning when not
GridRowOut(matrix, r, dayCols, dayDates, projectCol, taskCol, gridDeveloper) ==
  LET noDateWarning(dayIndex) ==
        <<"C","o","u","l","d"," ","n","o","t"," ","d","e","t","e","r","m","i","n","e"," ","d","a","t","e"," ","f","o","r"," ","d","a","y"," ","i","n","d","e","x"," ">> \o NatToStr(dayIndex)
          \o <<";"," ","s","k","i","p","p","i","n","g"," ","s","o","m","e"," ","c","e","l","l","s",".">>
      rowObject(dc, project, task) ==
        <<[key |-> <<"D","e","v","e","l","o","p","e","r">>,
           val |-> IF IsNullish(gridDeveloper) THEN Str(<<>>) ELSE gridDeveloper],
          [key |-> <<"P","r","o","j","e","c","t">>, val |-> Str(project)],
          [key |-> <<"T","a","s","k">>, val |-> Str(task)],
          [key |-> <<"D","a","t","e">>, val |-> dayDates[dc.dayIndex]],
          [key |-> <<"D","u","r","a","t","i","o","n">>,
           val |-> Num(100 * HoursToMinutes(toNumber(CellAt(matrix, r, dc.col)).n))]>>
      rowObjects(dated, project, task) ==
        [i \in 1..Len(dated) |-> rowObject(dated[i], project, task)]
      noDateWarnings(undated) == [i \in 1..Len(undated) |-> noDateWarning(undated[i].dayIndex)]
      of(project, task, positive) ==
        IF \/ (project = <<>> /\ task = <<>>
               /\ \A i \in 1..Len(dayCols) : ~isNumberLike(CellAt(matrix, r, dayCols[i].col)))
           \/ Includes(ToLower(project), <<"t","o","t","a","l">>) \/ Includes(ToLower(task), <<"t","o","t","a","l">>)
           \/ project = <<>> \/ task = <<>>
          THEN [rows |-> <<>>, warnings |-> <<>>]
          ELSE [rows |-> rowObjects(SelectSeq(positive, LAMBDA dc : dayDates[dc.dayIndex] # Null),
                                    project, task),
                warnings |-> noDateWarnings(SelectSeq(positive,
                                                      LAMBDA dc : dayDates[dc.dayIndex] = Null))]
  IN of(TrimmedText(CellAt(matrix, r, projectCol)), TrimmedText(CellAt(matrix, r, taskCol)),
        SelectSeq(dayCols, LAMBDA dc :
          isNumberLike(CellAt(matrix, r, dc.col)) /\ toNumber(CellAt(matrix, r, dc.col)).n > 0))

\* step 5: the row objects and warnings of grid rows from..(Len(matrix) - 1)
RECURSIVE GridRowsFrom(_, _, _, _, _, _, _)
GridRowsFrom(matrix, from, dayCols, dayDates, projectCol, taskCol, gridDeveloper) ==
  LET then(one, rest) ==
        [rows |-> one.rows \o rest.rows, warnings |-> one.warnings \o rest.warnings]
  IN IF from >= Len(matrix) THEN [rows |-> <<>>, warnings |-> <<>>]
     ELSE then(GridRowOut(matrix, from, dayCols, dayDates, projectCol, taskCol, gridDeveloper),
               GridRowsFrom(matrix, from + 1, dayCols, dayDates, projectCol, taskCol,
                            gridDeveloper))

NoWeekdayHeaderError ==
  <<"W","e","e","k","l","y"," ","g","r","i","d"," ","d","e","t","e","c","t","e","d",","," ","b","u","t"," ","c","o","u","l","d"," ","n","o","t"," ","f","i","n","d"," ","a"," ","h","e","a","d","e","r"," ","r","o","w"," ","w","i","t","h"," ","w","e","e","k","d","a","y"," ","c","o","l","u","m","n","s"," ","(","M","o","n",".",".","F","r","i",")"," ","o","r"," ","a"," ","P","r","o","j","e","c","t"," ","C","o","d","e"," ","h","e","a","d","e","r",".">>

\* the typographic quotes of the source are written as apostrophes
NoDatesErrors ==
  <<<<"W","e","e","k","l","y"," ","g","r","i","d"," ","d","e","t","e","c","t","e","d",","," ","b","u","t"," ","c","o","u","l","d"," ","n","o","t"," ","d","e","t","e","r","m","i","n","e"," ","t","h","e"," ","c","a","l","e","n","d","a","r"," ","d","a","t","e","s"," ","f","o","r"," ","e","a","c","h"," ","w","e","e","k","d","a","y"," ","c","o","l","u","m","n",".">>,
    <<"P","l","e","a","s","e"," ","i","n","c","l","u","d","e"," ","a"," ","'","W","e","e","k"," ","E","n","d","i","n","g","'"," ","d","a","t","e"," ","o","n"," ","t","h","e"," ","s","h","e","e","t"," ","(","o","r"," ","p","u","t"," ","a","c","t","u","a","l"," ","d","a","t","e","s"," ","i","n","/","n","e","a","r"," ","t","h","e"," ","w","e","e","k","d","a","y"," ","h","e","a","d","e","r","s",")",".">>>>

NoProjectColumnError ==
  <<"W","e","e","k","l","y"," ","g","r","i","d"," ","d","e","t","e","c","t","e","d",","," ","b","u","t"," ","c","o","u","l","d"," ","n","o","t"," ","d","e","t","e","c","t"," ","t","h","e"," ","P","r","o","j","e","c","t"," ","c","o","l","u","m","n"," ","i","n"," ","t","h","e"," ","h","e","a","d","e","r"," ","r","o","w",".">>

NoTaskColumnError ==
  <<"W","e","e","k","l","y"," ","g","r","i","d"," ","d","e","t","e","c","t","e","d",","," ","b","u","t"," ","c","o","u","l","d"," ","n","o","t"," ","d","e","t","e","c","t"," ","t","h","e"," ","T","a","s","k","/","A","c","t","i","v","i","t","y"," ","c","o","l","u","m","n"," ","i","n"," ","t","h","e"," ","h","e","a","d","e","r"," ","r","o","w",".">>

NoHoursErrors ==
  <<<<"W","e","e","k","l","y"," ","g","r","i","d"," ","d","e","t","e","c","t","e","d"," ","b","u","t"," ","n","o"," ","d","a","y"," ","c","e","l","l","s"," ","w","i","t","h"," ","p","o","s","i","t","i","v","e"," ","h","o","u","r","s"," ","w","e","r","e"," ","f","o","u","n","d"," ","t","o"," ","i","m","p","o","r","t",".">>,
    <<"M","a","k","e"," ","s","u","r","e"," ","w","e","e","k","d","a","y"," ","c","e","l","l","s"," ","c","o","n","t","a","i","n"," ","n","u","m","e","r","i","c"," ","h","o","u","r","s"," ","(","e",".","g","."," ","0",".","2","5",","," ","1",".","5",","," ","2",")",".">>>>

NoDeveloperWarning ==
  <<"D","e","v","e","l","o","p","e","r"," ","n","a","m","e"," ","n","o","t"," ","f","o","u","n","d"," ","o","n"," ","t","h","e"," ","s","h","e","e","t",";"," ","r","o","w","s"," ","m","a","y"," ","f","a","i","l"," ","i","f"," ","t","h","e"," ","g","r","i","d"," ","h","a","s"," ","n","o"," ","p","e","r","-","r","o","w"," ","d","e","v","e","l","o","p","e","r"," ","c","o","l","u","m","n",".">>

\* convertWeeklyGridToRowObjects returns no rows
GridFailed(errors, warnings, developer, firstDataRowNumber) ==
  [rows |-> <<>>, errors |-> errors, warnings |-> warnings,
   defaultDeveloper |-> developer, firstDataRowNumber |-> firstDataRowNumber]

\* step 5: the warning pushed when no developer is known
DeveloperWarnings(gridDeveloper) == IF Truthy(gridDeveloper) THEN <<>> ELSE <<NoDeveloperWarning>>

\* a faulty variant of step 5: a grid without rows is returned as a success
ConvertedUnchecked(out, dataStartRow, gridDeveloper) ==
  [rows |-> out.rows, errors |-> <<>>,
   warnings |-> DeveloperWarnings(gridDeveloper) \o out.warnings,
   defaultDeveloper |-> gridDeveloper, firstDataRowNumber |-> dataStartRow + 1]

\* step 5: what convertWeeklyGridToRowObjects returns once the grid rows are read
Converted(out, dataStartRow, gridDeveloper) ==
  [rows |-> out.rows,
   errors |-> IF out.rows = <<>> THEN NoHoursErrors ELSE <<>>,
   warnings |-> DeveloperWarnings(gridDeveloper) \o out.warnings,
   defaultDeveloper |-> gridDeveloper, firstDataRowNumber |-> dataStartRow + 1]

\* step 5, from the first data row on
ConvertFrom(z, matrix, headerRow, dayCols, weekEnding, projectCol, taskCol, dataStartRow, gridDeveloper) ==
  Converted(GridRowsFrom(matrix, dataStartRow, dayCols,
                         DayDates(z, matrix, headerRow, dayCols, weekEnding),
                         projectCol, taskCol, gridDeveloper),
            dataStartRow, gridDeveloper)

\* step 4, once the project and task columns are looked up: the errors for the
\* columns that were not found, or step 5 from the first data row, which comes after
\* the row of dates under the header when there is one
ConvertColumns(z, matrix, defaultDeveloper, headerRow, dayCols, weekEnding, projectCol, taskCol) ==
  LET columnErrors ==
        (IF projectCol < 0 THEN <<NoProjectColumnError>> ELSE <<>>)
          \o (IF taskCol < 0 THEN <<NoTaskColumnError>> ELSE <<>>)
  IN IF columnErrors # <<>>
       THEN GridFailed(columnErrors, <<>>, defaultDeveloper, headerRow + 2)
       ELSE ConvertFrom(z, matrix, headerRow, dayCols, weekEnding, projectCol, taskCol,
                        IF \E i \in 1..Len(dayCols) :
                             isPlausibleHeaderDate(z, CellAt(matrix, headerRow + 1, dayCols[i].col))
                          THEN headerRow + 2 ELSE headerRow + 1,
                        GridDeveloper(matrix, defaultDeveloper))

\* steps 3 and 4, once the week ending and the explicit dates are looked up; the
\* task column falls back to the column right of the project column
ConvertDated(z, matrix, defaultDeveloper, headerRow, dayCols, weekEnding, explicit, projectCol) ==
  LET taskColOr(foundTaskCol) ==
        IF foundTaskCol < 0 /\ projectCol >= 0 /\ projectCol + 1 < Len(matrix[headerRow + 1])
          THEN projectCol + 1 ELSE foundTaskCol
  IN IF (\A i \in 1..Len(dayCols) : explicit[i] = Null) /\ weekEnding = Null
       THEN GridFailed(NoDatesErrors, <<>>, defaultDeveloper, headerRow + 2)
       ELSE ConvertColumns(z, matrix, defaultDeveloper, headerRow, dayCols, weekEnding, projectCol,
                           taskColOr(FindCol(matrix, headerRow,
                                             {<<"t","a","s","k">>, <<"a","c","t","i","v","i","t","y">>, <<"w","o","r","k"," ","i","t","e","m">>, <<"w","o","r","k","i","t","e","m">>,
                                              <<"d","e","s","c","r","i","p","t","i","o","n">>, <<"r","o","l","e">>, <<"s","t","o","r","y">>, <<"c","a","r","d">>})))

\* steps 2 to 5, once the header row is looked up
ConvertUnder(z, matrix, defaultDeveloper, headerRow, dayCols) ==
  IF headerRow < 0 \/ dayCols = <<>>
    THEN GridFailed(<<NoWeekdayHeaderError>>, <<>>, defaultDeveloper, 2)
    ELSE ConvertDated(z, matrix, defaultDeveloper, headerRow, dayCols, WeekEnding(z, matrix),
                      ExplicitDates(z, matrix, headerRow, dayCols),
                      FindCol(matrix, headerRow, {<<"p","r","o","j","e","c","t">>, <<"c","l","i","e","n","t">>, <<"j","o","b">>}))

\* ExcelParser.convertWeeklyGridToRowObjects: [rows, errors, warnings,
\* defaultDeveloper, firstDataRowNumber]
convertWeeklyGridToRowObjects(z, matrix, defaultDeveloper) ==
  ConvertUnder(z, matrix, defaultDeveloper, GridHeader(matrix).headerRow,
               GridHeader(matrix).dayCols)

(* ------------------------------ parseFile ------------------------------ *)

\* the typographic quotes of the source are written as apostrophes
NoHeaderRowErrors(looksLikeWeeklyGrid) ==
  <<<<"C","o","u","l","d"," ","n","o","t"," ","d","e","t","e","c","t"," ","a"," ","h","e","a","d","e","r"," ","r","o","w"," ","w","i","t","h"," ","t","h","e"," ","e","x","p","e","c","t","e","d"," ","c","o","l","u","m","n","s","."," ","E","x","p","e","c","t","e","d"," ","c","o","l","u","m","n","s"," ","l","i","k","e"," ","D","e","v","e","l","o","p","e","r",","," ","P","r","o","j","e","c","t",","," ","T","a","s","k",","," ","D","a","t","e",","," ","D","u","r","a","t","i","o","n"," ","(","o","r"," ","S","t","a","r","t","/","E","n","d",")",","," ","N","o","t","e","s",".">>,
    IF looksLikeWeeklyGrid
      THEN <<"I","t"," ","l","o","o","k","s"," ","l","i","k","e"," ","t","h","i","s"," ","f","i","l","e"," ","i","s"," ","a"," ","w","e","e","k","l","y"," ","g","r","i","d"," ","(","M","o","n","/","T","u","e","/","W","e","d"," ","c","o","l","u","m","n","s",")","."," ","I","f"," ","i","m","p","o","r","t"," ","f","a","i","l","s",","," ","e","n","s","u","r","e"," ","t","h","e"," ","s","h","e","e","t"," ","i","n","c","l","u","d","e","s"," ","a"," ","'","W","e","e","k"," ","E","n","d","i","n","g","'"," ","d","a","t","e"," ","(","o","r"," ","a","c","t","u","a","l"," ","d","a","t","e","s"," ","i","n","/","n","e","a","r"," ","t","h","e"," ","w","e","e","k","d","a","y"," ","h","e","a","d","e","r","s",")",".">>
      ELSE <<"I","f"," ","y","o","u","r"," ","t","i","m","e","s","h","e","e","t"," ","i","s"," ","a"," ","w","e","e","k","l","y"," ","g","r","i","d"," ","(","e",".","g","."," ","M","o","n","/","T","u","e","/","W","e","d"," ","c","o","l","u","m","n","s",")",","," ","e","n","s","u","r","e"," ","i","t"," ","i","n","c","l","u","d","e","s"," ","a"," ","'","W","e","e","k"," ","E","n","d","i","n","g","'"," ","d","a","t","e"," ","(","o","r"," ","a","c","t","u","a","l"," ","d","a","t","e","s"," ","i","n","/","n","e","a","r"," ","t","h","e"," ","w","e","e","k","d","a","y"," ","h","e","a","d","e","r","s",")",".">>>>

\* parseFile: "const usedHeaderRow = bestMatchCount >= 2 ? bestHeaderRow : -1"
UsedHeaderRow(selected) == IF selected.bestMatchCount >= 2 THEN selected.bestHeaderRow ELSE -1

\* parseFile: "const firstDataRowNumber = usedHeaderRow >= 0 ? usedHeaderRow + 2 : 2"
FirstDataRowNumber(usedHeaderRow) == IF usedHeaderRow >= 0 THEN usedHeaderRow + 2 ELSE 2

\* parseFile: the normalized keys of the first five row objects
NormalizedKeys(rows) ==
  {normalizeCell(Str(rows[j][c].key)) :
     j \in 1..(IF Len(rows) < 5 THEN Len(rows) ELSE 5), c \in 1..(IF rows = <<>> THEN 0 ELSE Len(rows[1]))}

\* parseFile's looksLikeWeeklyGridByKeys || looksLikeWeeklyGridByMatrix; both need
\* !hasDateColumn && !hasDurationColumn && !(hasStartColumn && hasEndColumn)
LooksLikeGrid(keys, selected) ==
  LET rowBased ==
        \/ \E k \in keys : k = <<"d","a","t","e">> \/ Includes(k, <<"w","o","r","k"," ","d","a","t","e">>)
        \/ \E k \in keys : \/ Includes(k, <<"d","u","r","a","t","i","o","n">>) \/ Includes(k, <<"m","i","n","u","t","e","s">>) \/ k = <<"m","i","n","s">>
                           \/ k = <<"m","i","n">> \/ Includes(k, <<"h","o","u","r","s">>) \/ k = <<"h","r","s">>
        \/ /\ \E k \in keys : k \in {<<"s","t","a","r","t">>, <<"s","t","a","r","t"," ","t","i","m","e">>, <<"b","e","g","i","n">>}
           /\ \E k \in keys : k \in {<<"e","n","d">>, <<"e","n","d"," ","t","i","m","e">>, <<"f","i","n","i","s","h">>}
  IN /\ \/ \E k \in keys : FirstToken(k) \in weekdayTokens
        \/ selected.looksLikeWeeklyGrid
        \/ SomeCell(selected.matrix, 30, LAMBDA c : c = <<"p","r","o","j","e","c","t"," ","c","o","d","e">>)
     /\ ~rowBased

\* the ParseResult parseFile returns without parsing any row
StructuralFailure(sheetName, developer, codes, errors, warnings) ==
  [entries |-> <<>>, sheetName |-> sheetName,
   detectedDeveloper |-> IF IsNullish(developer) THEN Null ELSE developer,
   developers |-> IF Truthy(developer) THEN <<ToStr(developer)>> ELSE <<>>,
   projects |-> [all |-> codes, invalid |-> codes],
   preview |-> <<>>, errors |-> errors, warnings |-> warnings]

\* parseFile, after the conversion of a weekly grid: the failure it returns, or the
\* rows and options it hands to parseRows ("converted.defaultDeveloper ?? defaultDeveloper")
GridPlanOf(selected, codes, converted) ==
  LET of(developer) ==
        IF converted.errors # <<>>
          THEN [kind |-> "failure",
                result |-> StructuralFailure(selected.name, developer, codes,
                                             converted.errors, converted.warnings)]
          ELSE [kind |-> "rows", sheetName |-> selected.name, codes |-> codes,
                rows |-> converted.rows, defaultDeveloper |-> developer,
                firstDataRowNumber |-> converted.firstDataRowNumber]
  IN of(IF IsNullish(converted.defaultDeveloper) THEN selected.defaultDeveloper
        ELSE converted.defaultDeveloper)

\* parseFile, after a weekly grid was detected
GridPlan(z, selected, codes) ==
  GridPlanOf(selected, codes,
             convertWeeklyGridToRowObjects(z, selected.matrix, selected.defaultDeveloper))

\* the branch parseFile takes: "grid" (a weekly grid, by the keys or the matrix, or by
\* the weekday cells when no header is recognized), "failure" (no header row) or
\* "rows" (row-based)
PlanKind(selected, keys) ==
  IF LooksLikeGrid(keys, selected) THEN "grid"
  ELSE IF ~\E k \in keys : MatchesHeaderToken(k)
    THEN IF SomeCell(selected.matrix, 20, LAMBDA c : c \in weekdayTokens) THEN "grid"
         ELSE "failure"
  ELSE "rows"

\* parseFile on the branch it takes
PlanOfKind(z, selected, codes, rows, keys) ==
  LET of(kind) ==
        IF kind = "grid" THEN GridPlan(z, selected, codes)
        ELSE IF kind = "failure"
          THEN [kind |-> "failure",
                result |-> StructuralFailure(selected.name, selected.defaultDeveloper, codes,
                                             NoHeaderRowErrors(FALSE), <<>>)]
        ELSE [kind |-> "rows", sheetName |-> selected.name, codes |-> codes, rows |-> rows,
              defaultDeveloper |-> selected.defaultDeveloper,
              firstDataRowNumber |-> FirstDataRowNumber(UsedHeaderRow(selected))]
  IN of(PlanKind(selected, keys))

\* parseFile up to its call of parseRows, in a host whose timezone offset is z
ParseFilePlan(z, selected) ==
  PlanOfKind(z, selected, extractProjectCodesFromMatrix(selected.matrix),
             sheetToJson(selected.matrix, UsedHeaderRow(selected)),
             NormalizedKeys(sheetToJson(selected.matrix, UsedHeaderRow(selected))))

\* parseFile's finalize: the project lists are merged, checked against the store in
\* preview mode, and the Invalid projects line is rebuilt
finalize(parsed, mode, sheetName, projectCodesFromMatrix, projectTable) ==
  LET mergedProjects(all) ==
        IF all = <<>> /\ projectCodesFromMatrix # <<>> THEN projectCodesFromMatrix
        ELSE IF projectCodesFromMatrix # <<>>
          THEN SortNames(Range(all) \cup Range(projectCodesFromMatrix))
        ELSE all
      filtered(errors) == SelectSeq(errors, LAMBDA e : ~StartsWith(e, <<"I","n","v","a","l","i","d"," ","p","r","o","j","e","c","t","s"," ","(">>))
      finalized(mergedAllProjects, invalid) ==
        [parsed EXCEPT
           !.sheetName = sheetName,
           !.projects = [all |-> mergedAllProjects, invalid |-> invalid],
           !.errors = IF mode = "preview" /\ invalid # <<>>
                        THEN <<InvalidProjectsLine(invalid, mergedAllProjects)>>
                               \o filtered(parsed.errors)
                        ELSE filtered(parsed.errors)]
      merged(mergedAllProjects) ==
        finalized(mergedAllProjects,
                  IF mode = "preview" /\ mergedAllProjects # <<>>
                    THEN InvalidOf(mergedAllProjects, projectTable)
                    ELSE parsed.projects.invalid)
  IN merged(mergedProjects(parsed.projects.all))

(* ------------------------------- inputs -------------------------------- *)

\* the longest row list given to parseRows directly
MaxRows == 2

\* a row object with the keys of the row-based format; val fields that are left out
\* of a sheet are null (sheet_to_json's defval)
MkRow(developer, project, task, date, duration) ==
  <<[key |-> <<"D","e","v","e","l","o","p","e","r">>, val |-> developer], [key |-> <<"P","r","o","j","e","c","t">>, val |-> project],
    [key |-> <<"T","a","s","k">>, val |-> task], [key |-> <<"D","a","t","e">>, val |-> date],
    [key |-> <<"D","u","r","a","t","i","o","n">>, val |-> duration]>>

\* a row object that gives start and end times in place of a duration
MkTimedRow(developer, project, date, start, end) ==
  <<[key |-> <<"D","e","v","e","l","o","p","e","r">>, val |-> developer], [key |-> <<"P","r","o","j","e","c","t">>, val |-> project],
    [key |-> <<"D","a","t","e">>, val |-> date], [key |-> <<"S","t","a","r","t"," ","T","i","m","e">>, val |-> start],
    [key |-> <<"E","n","d"," ","T","i","m","e">>, val |-> end], [key |-> <<"N","o","t","e","s">>, val |-> Str(<<"s","t","a","n","d","u","p">>)]>>

Ann == Str(<<"A","n","n">>)

Bob == Str(<<" ","B","o","b"," ">>)

Apollo == Str(<<"A","p","o","l","l","o">>)

Zeus == Str(<<"Z","e","u","s">>)

Feb5 == Str(<<"2","0","2","6","-","0","2","-","0","5">>)

\* the durations tried in a Duration cell, in minutes
DurationSamples == {-15, 0, 15, 22, 30}

DurationRows == {MkRow(Ann, Apollo, Str(<<"D","e","s","i","g","n">>), Feb5, Num(d * 100)) : d \in DurationSamples}

TimedRows ==
  {MkTimedRow(Ann, Apollo, Feb5, Str(se[1]), Str(se[2])) :
     se \in {<<<<"9",":","0","0">>, <<"9",":","3","0">>>>, <<<<"9",":","0","0"," ","A","M">>, <<"9",":","2","2"," ","A","M">>>>, <<<<"1",":","0","0"," ","P","M">>, <<"1","2",":","0","0"," ","P","M">>>>,
             <<<<"n","o","o","n">>, <<"9",":","3","0">>>>}}

OtherRows ==
  {MkRow(Bob, Zeus, Str(<<"d","e","s","i","g","n">>), Str(<<"1","3","/","0","2","/","2","0","2","6">>), Str(<<"4","5">>)),
   MkRow(Null, Apollo, Null, Feb5, Num(1500)),
   MkRow(Ann, Null, Null, Feb5, Num(1500)),
   MkRow(Ann, Apollo, Null, Null, Num(1500)),
   MkRow(Ann, Apollo, Null, Str(<<"s","o","o","n">>), Num(1500)),
   MkRow(Ann, Zeus, Null, Feb5, Null),
   MkRow(Ann, Str(<<"T","o","t","a","l","s">>), Null, Feb5, Num(1500)),
   MkRow(Null, Null, Null, Null, Null)}

\* the rows parseRows is given
RowUniverse == DurationRows \cup TimedRows \cup OtherRows

\* the sequences over S of length at most n
SeqsUpTo(S, n) == UNION {[1..m -> S] : m \in 0..n}

\* the sheet-level developer passed as opts.defaultDeveloper: none, a name, a blank
DefaultDevelopers == {Undefined, Str(<<"D","a","n","a"," ">>), Str(<<" ">>)}

\* the zones the host may run in (getTimezoneOffset: UTC, UTC-5)
TimeZones == {0, 300}

\* entity stores left by earlier imports
StoreSeeds ==
  {[developers |-> <<>>, projects |-> <<>>, tasks |-> <<>>],
   [developers |-> <<<<"A","n","n">>>>, projects |-> <<<<"A","p","o","l","l","o">>>>,
    tasks |-> <<[projectId |-> 1, name |-> <<"D","e","s","i","g","n">>]>>],
   [developers |-> <<<<"B","o","b">>>>, projects |-> <<<<"Z","e","u","s">>, <<"A","p","o","l","l","o">>>>, tasks |-> <<>>]}

(* ------------------------------ workbooks ------------------------------ *)

\* the most sheets a workbook of the model has
MaxSheets == 2

\* a matrix row from cell texts; an empty cell reads null (defval: null), every
\* other cell reads as its formatted text (raw: false)
Cells(texts) == [c \in 1..Len(texts) |-> IF texts[c] = <<>> THEN Null ELSE Str(texts[c])]

Matrix(rowsOfTexts) == [r \in 1..Len(rowsOfTexts) |-> Cells(rowsOfTexts[r])]

Sheet(name, rowsOfTexts) == [name |-> name, matrix |-> Matrix(rowsOfTexts)]

\* the metadata sheet of the sheet-selection test
VariableSheet ==
  Sheet(<<"V","a","r","i","a","b","l","e">>, <<<<<<"V","a","r","i","a","b","l","e">>, <<"S","o","m","e"," ","m","e","t","a","d","a","t","a">>>>, <<<<"L","o","o","k","u","p">>, <<"V","a","l","u","e","s">>>>>>)

\* row-based, every row valid
TimesheetSheet ==
  Sheet(<<"T","i","m","e","s","h","e","e","t">>,
        <<<<<<"D","e","v","e","l","o","p","e","r">>, <<"P","r","o","j","e","c","t">>, <<"T","a","s","k">>, <<"D","a","t","e">>, <<"D","u","r","a","t","i","o","n">>, <<"N","o","t","e","s">>>>,
          <<<<"A","n","n">>, <<"A","p","o","l","l","o">>, <<"D","e","s","i","g","n">>, <<"2","0","2","6","-","0","2","-","0","5">>, <<"3","0">>, <<"o","k">>>>,
          <<<<"B","o","b">>, <<"Z","e","u","s">>, <<"B","u","i","l","d">>, <<"2","/","6","/","2","0","2","6">>, <<"4","5">>, <<>>>>>>)

\* row-based, with a zero-duration row for a new project and a row of 20 minutes
BadRowsSheet ==
  Sheet(<<"S","h","e","e","t","1">>,
        <<<<<<"D","e","v","e","l","o","p","e","r">>, <<"P","r","o","j","e","c","t">>, <<"T","a","s","k">>, <<"D","a","t","e">>, <<"D","u","r","a","t","i","o","n">>>>,
          <<<<"A","n","n">>, <<"A","p","o","l","l","o">>, <<"D","e","s","i","g","n">>, <<"2","0","2","6","-","0","2","-","0","5">>, <<"3","0">>>>,
          <<<<"A","n","n">>, <<"H","e","r","m","e","s">>, <<"D","e","s","i","g","n">>, <<"2","0","2","6","-","0","2","-","0","5">>, <<"0">>>>,
          <<<<"C","y">>, <<"A","p","o","l","l","o">>, <<>>, <<"2","0","2","6","-","0","2","-","0","5">>, <<"2","0">>>>>>)

\* row-based, the header row below a title row, times in place of durations
ExportSheet ==
  Sheet(<<"E","x","p","o","r","t">>,
        <<<<<<"R","e","p","o","r","t">>, <<>>, <<>>, <<>>, <<>>>>,
          <<<<"E","m","p","l","o","y","e","e">>, <<"P","r","o","j","e","c","t"," ","N","a","m","e">>, <<"W","o","r","k"," ","D","a","t","e">>, <<"S","t","a","r","t">>, <<"E","n","d">>>>,
          <<<<"A","n","n">>, <<"A","p","o","l","l","o">>, <<"2","0","2","6","-","0","2","-","0","5">>, <<"9",":","0","0">>, <<"9",":","4","5">>>>,
          <<<<"A","n","n">>, <<"A","p","o","l","l","o">>, <<"2","0","2","6","-","0","2","-","0","5">>, <<"1","0",":","0","0">>, <<"9",":","0","0">>>>>>)

\* weekly grid with a developer label and a week-ending date
WeekSheet ==
  Sheet(<<"W","e","e","k">>,
        <<<<<<"N","a","m","e",":">>, <<"A","n","n">>, <<>>, <<>>, <<>>, <<>>, <<>>>>,
          <<<<"W","e","e","k"," ","E","n","d","i","n","g">>, <<"2","0","2","6","-","0","2","-","0","6">>, <<>>, <<>>, <<>>, <<>>, <<>>>>,
          <<<<"P","r","o","j","e","c","t">>, <<"T","a","s","k">>, <<"M","o","n">>, <<"T","u","e">>, <<"W","e","d">>, <<"T","h","u">>, <<"F","r","i">>>>,
          <<<<"A","p","o","l","l","o">>, <<"D","e","s","i","g","n">>, <<"8">>, <<"0">>, <<>>, <<"0",".","2","5">>, <<>>>>,
          <<<<"Z","e","u","s">>, <<"B","u","i","l","d">>, <<>>, <<"1",".","5">>, <<>>, <<>>, <<"0",".","1">>>>,
          <<<<"T","o","t","a","l">>, <<>>, <<"8">>, <<"1",".","5">>, <<>>, <<"0",".","2","5">>, <<"0",".","1">>>>>>)

\* weekly grid without any date
UndatedGridSheet ==
  Sheet(<<"G","r","i","d">>,
        <<<<<<"P","r","o","j","e","c","t">>, <<"T","a","s","k">>, <<"M","o","n">>, <<"T","u","e">>, <<"W","e","d">>, <<"T","h","u">>, <<"F","r","i">>>>,
          <<<<"A","p","o","l","l","o">>, <<"D","e","s","i","g","n">>, <<"8">>, <<>>, <<>>, <<>>, <<"2">>>>>>)

\* weekly grid whose header row names neither a project nor a task column
UnlabelledGridSheet ==
  Sheet(<<"I","t","e","m","s">>,
        <<<<<<"W","e","e","k"," ","E","n","d","i","n","g",":"," ","2","0","2","6","-","0","2","-","0","6">>, <<>>, <<>>, <<>>, <<>>, <<>>, <<>>>>,
          <<<<"I","t","e","m">>, <<"W","o","r","k">>, <<"M","o","n">>, <<"T","u","e">>, <<"W","e","d">>, <<"T","h","u">>, <<"F","r","i">>>>,
          <<<<"A","p","o","l","l","o">>, <<"D","e","s","i","g","n">>, <<"8">>, <<>>, <<>>, <<>>, <<"2">>>>>>)

\* weekly grid without hours that can be dated: one date, in a weekday header, and
\* no developer label
IdleGridSheet ==
  Sheet(<<"I","d","l","e">>,
        <<<<<<"P","r","o","j","e","c","t">>, <<"A","c","t","i","v","i","t","y">>, <<"M","o","n"," ","2","/","2","/","2","0","2","6">>, <<"T","u","e">>, <<"W","e","d">>, <<"T","h","u">>, <<"F","r","i">>>>,
          <<<<"A","p","o","l","l","o">>, <<"D","e","s","i","g","n">>, <<"0">>, <<"3">>, <<>>, <<>>, <<>>>>>>)

\* weekly grid that names no developer
AnonymousGridSheet ==
  Sheet(<<"H","o","u","r","s">>,
        <<<<<<"W","e","e","k"," ","o","f">>, <<"2","/","6","/","2","0","2","6">>, <<>>, <<>>, <<>>, <<>>, <<>>>>,
          <<<<"C","l","i","e","n","t">>, <<"A","c","t","i","v","i","t","y">>, <<"M","o","n","d","a","y">>, <<"T","u","e","s","d","a","y">>, <<"W","e","d","n","e","s","d","a","y">>, <<"T","h","u","r","s","d","a","y">>, <<"F","r","i","d","a","y">>>>,
          <<<<"A","p","o","l","l","o">>, <<"D","e","s","i","g","n">>, <<"1">>, <<"0",".","3","3">>, <<>>, <<>>, <<>>>>,
          <<<<"Z","e","u","s">>, <<>>, <<"2">>, <<>>, <<>>, <<>>, <<>>>>>>)

\* the weekly grid of the conversion test: a name label, a week ending on a Friday,
\* hours Mon 1, Tue 0, Wed 0.25, Fri 2 and a Total column
ExampleGridSheet ==
  Sheet(<<"E","x","a","m","p","l","e">>,
        <<<<<<"N","a","m","e",":">>, <<"C","y">>>>,
          <<<<"W","e","e","k"," ","E","n","d","i","n","g",":">>, <<"2","0","2","4","-","0","4","-","0","5">>>>,
          <<>>,
          <<<<"P","r","o","j","e","c","t">>, <<"T","a","s","k">>, <<"M","o","n">>, <<"T","u","e">>, <<"W","e","d">>, <<"T","h","u">>, <<"F","r","i">>, <<"T","o","t","a","l">>>>,
          <<<<"A","p","o","l","l","o">>, <<"B","u","i","l","d"," ","p","a","r","s","e","r">>, <<"1">>, <<"0">>, <<"0",".","2","5">>, <<>>, <<"2">>, <<"3",".","2","5">>>>>>)

\* a list of project codes and nothing else
CodesSheet ==
  Sheet(<<"C","o","d","e","s">>, <<<<<<"P","r","o","j","e","c","t"," ","C","o","d","e">>>>, <<<<"Z","e","u","s">>>>, <<<<"A","p","o","l","l","o">>>>>>)

\* a list of shifts under row-based headers, one of them the name of a weekday, and
\* neither a date nor a duration column
ShiftSheet ==
  Sheet(<<"S","h","i","f","t">>,
        <<<<<<"D","e","v","e","l","o","p","e","r">>, <<"P","r","o","j","e","c","t">>, <<"T","a","s","k">>, <<"M","o","n">>>>,
          <<<<"A","n","n">>, <<"A","p","o","l","l","o">>, <<"D","e","s","i","g","n">>, <<"1">>>>>>)

\* the sheets workbooks are made of
SheetUniverse ==
  {VariableSheet, TimesheetSheet, BadRowsSheet, ExportSheet, WeekSheet, UndatedGridSheet,
   UnlabelledGridSheet, IdleGridSheet, AnonymousGridSheet, ExampleGridSheet, CodesSheet,
   ShiftSheet}

\* the workbooks uploaded: at least one sheet, sheet names unique
Workbooks ==
  {wb \in SeqsUpTo(SheetUniverse, MaxSheets) :
     wb # <<>> /\ \A i, j \in 1..Len(wb) : i # j => wb[i].name # wb[j].name}

\* analyzeSheet, computed once per sheet
AnalysisTable == [sheet \in SheetUniverse |-> analyzeSheet(sheet)]

\* parseFile's analyses of a workbook
Analyses(wb) == [i \in 1..Len(wb) |-> AnalysisTable[wb[i]]]

\* ParseFilePlan of each sheet when it is the selected one, computed once per zone
PlanTable ==
  [z \in TimeZones |-> [sheet \in SheetUniverse |-> ParseFilePlan(z, AnalysisTable[sheet])]]

\* parseFile up to its call of parseRows, on a workbook
PlanOf(z, wb) ==
  LET selected == SelectSheet(Analyses(wb))
  IN PlanTable[z][CHOOSE sheet \in SheetUniverse : sheet.name = selected.name]

(* ----------------------------- long inputs ----------------------------- *)

\* the longest of the long row lists: more rows than the preview keeps
MaxRowsLong == 12

\* the day of the month of the i-th long row, two digits
DayText(i) == IF i < 10 THEN <<"0">> \o NatToStr(i) ELSE NatToStr(i)

\* the i-th row of a long list: valid (15 or 30 minutes on the i-th of February), of
\* zero duration, or blank
LongRow(i, kind) ==
  IF kind = "blank" THEN MkRow(Null, Null, Null, Null, Null)
  ELSE MkRow(Ann, Apollo, Str(<<"D","e","s","i","g","n">>), Str(<<"2","0","2","6","-","0","2","-">> \o DayText(i)),
             IF kind = "zero" THEN Num(0) ELSE IF i % 2 = 0 THEN Num(3000) ELSE Num(1500))

\* the rows of a long list of n rows whose rows at positions bad are not valid: of
\* zero duration at the odd positions, blank at the even ones
LongRows(n, bad) ==
  [i \in 1..n |->
     LongRow(i, IF i \notin bad THEN "valid" ELSE IF i % 2 = 1 THEN "zero" ELSE "blank")]

\* the long row lists: around PreviewLimit valid rows, two rows at most not valid
LongRowLists ==
  {LongRows(n, bad) : n \in (MaxRowsLong - 2)..MaxRowsLong,
                      bad \in {b \in SUBSET (1..MaxRowsLong) : Cardinality(b) <= 2}}

\* the texts of the i-th data row of the long sheet; the third has no duration
LongSheetRow(i) ==
  <<<<"A","n","n">>, <<"A","p","o","l","l","o">>, <<"D","e","s","i","g","n">>, <<"2","0","2","6","-","0","2","-">> \o DayText(i),
    IF i = 3 THEN <<"0">> ELSE IF i % 2 = 0 THEN <<"3","0">> ELSE <<"1","5">>>>

\* a row-based sheet of MaxRowsLong data rows
LongSheet ==
  Sheet(<<"L","o","n","g">>,
        <<<<<<"D","e","v","e","l","o","p","e","r">>, <<"P","r","o","j","e","c","t">>, <<"T","a","s","k">>, <<"D","a","t","e">>, <<"D","u","r","a","t","i","o","n">>>>>>
          \o [i \in 1..MaxRowsLong |-> LongSheetRow(i)])

\* ParseFilePlan of the long sheet, computed once per zone
LongPlanTable == [z \in TimeZones |-> ParseFilePlan(z, analyzeSheet(LongSheet))]

(* ----------------------------- date inputs ----------------------------- *)

\* the first and second components of the slash dates tried
SlashParts == {0, 2, 5, 12, 13, 14, 31}

\* 'A/B/2026'
SlashText(a, b) == NatToStr(a) \o <<"/">> \o NatToStr(b) \o <<"/","2","0","2","6">>

\* the slash dates given to parseDate, one of them with a padded month
SlashTexts == {SlashText(a, b) : a, b \in SlashParts} \cup {<<"1","3","/","0","2","/","2","0","2","6">>}

\* an otherwise valid row dated by a slash date
SlashRows == {MkRow(Ann, Apollo, Str(<<"D","e","s","i","g","n">>), Str(t), Num(1500)) : t \in SlashTexts}

\* the 'YYYY-M-D' dates given to parseDate: days of the calendar and days that are not
YmdTexts ==
  {<<"2","0","2","6","-","0","2","-","2","8">>, <<"2","0","2","6","-","2","-","5">>, <<"2","0","2","6","-","0","2","-","3","1">>, <<"2","0","2","6","-","1","3","-","0","1">>, <<"2","0","2","6","-","0","-","1","0">>, <<"2","0","2","6","-","0","4","-","0">>,
   <<"2","0","2","4","-","0","2","-","2","9">>, <<"2","0","2","6","-","0","2","-","2","9">>}

\* an otherwise valid row dated by a 'YYYY-M-D' date
YmdRows == {MkRow(Ann, Apollo, Str(<<"D","e","s","i","g","n">>), Str(t), Num(1500)) : t \in YmdTexts}

\* the one-row inputs that exercise parseDate
DatedRows == SlashRows \cup YmdRows

(* ----------------------------- task inputs ----------------------------- *)

\* the longest list of task rows
MaxTaskRows == 3

\* valid rows of one developer, for two projects and two task names that differ by
\* their case only
TaskRows ==
  {MkRow(Str(<<"C","y">>), project, task, Feb5, Num(1500)) :
     project \in {Apollo, Str(<<"H","e","r","m","e","s">>)}, task \in {Str(<<"D","e","s","i","g","n">>), Str(<<"d","e","s","i","g","n">>)}}

(* ----------------------- rows of concurrent imports ---------------------- *)

\* the most rows an import running beside another has
MaxNamedRows == 2

\* rows that parse, by the names they resolve: a new developer, project and
\* task, and a row without a task
NamedRows ==
  {[developer |-> <<"C","y">>, project |-> <<"H","e","r","m","e","s">>, task |-> <<"D","e","s","i","g","n">>],
   [developer |-> <<"A","n","n">>, project |-> <<"A","p","o","l","l","o">>, task |-> <<>>]}

\* the most rows the import running beside it has
MaxRivalRows == 1

\* the row lists of at most n rows
NamedRowLists(n) == UNION {[1..k -> NamedRows] : k \in 1..n}

\* the row lists invocation p may be given
RowListsOf(p) == NamedRowLists(IF p = 1 THEN MaxNamedRows ELSE MaxRivalRows)

(* ------------------------------ grid inputs ----------------------------- *)

\* weekly grid, week-ending date, a Notes column between Thu and Fri
GappedWeekSheet ==
  Sheet(<<"G","a","p","p","e","d">>,
        <<<<<<"N","a","m","e",":">>, <<"A","n","n">>, <<>>, <<>>, <<>>, <<>>, <<>>, <<>>>>,
          <<<<"W","e","e","k"," ","E","n","d","i","n","g">>, <<"2","0","2","6","-","0","2","-","0","6">>, <<>>, <<>>, <<>>, <<>>, <<>>, <<>>>>,
          <<<<"P","r","o","j","e","c","t">>, <<"T","a","s","k">>, <<"M","o","n">>, <<"T","u","e">>, <<"W","e","d">>, <<"T","h","u">>, <<"N","o","t","e","s">>, <<"F","r","i">>>>,
          <<<<"A","p","o","l","l","o">>, <<"D","e","s","i","g","n">>, <<"1">>, <<>>, <<>>, <<"2">>, <<"l","a","t","e">>, <<"0",".","5">>>>>>)

\* the layout of the Project Code test: Project Code in column C, the task label in
\* D, blank header cells over the day columns E..K
CardsSheet ==
  Sheet(<<"C","a","r","d","s">>,
        <<<<<<>>, <<"N","a","m","e",":">>, <<"A","n","n">>, <<>>, <<>>, <<>>, <<>>, <<>>, <<>>, <<>>, <<>>>>,
          <<<<>>, <<"W","e","e","k"," ","E","n","d","i","n","g",":">>, <<"2","0","2","6","-","0","2","-","0","6">>, <<>>, <<>>, <<>>, <<>>, <<>>, <<>>, <<>>, <<>>>>,
          <<<<>>, <<>>, <<"P","r","o","j","e","c","t"," ","C","o","d","e">>, <<"R","O","L","E"," ","A","N","D"," ","S","T","O","R","Y"," ","C","A","R","D"," ","N","U","M","B","E","R">>,
            <<>>, <<>>, <<>>, <<>>, <<>>, <<>>, <<>>>>,
          <<<<>>, <<>>, <<"A","p","o","l","l","o">>, <<"D","e","s","i","g","n">>, <<"1">>, <<>>, <<"2">>, <<>>, <<>>, <<>>, <<"0",".","5">>>>>>)

\* the same grid two columns to the left: Project Code in column A, the task label
\* in B, the day columns C..I
ShiftedCardsSheet ==
  Sheet(<<"S","h","i","f","t","e","d">>,
        <<<<<<"N","a","m","e",":">>, <<"A","n","n">>, <<>>, <<>>, <<>>, <<>>, <<>>, <<>>, <<>>>>,
          <<<<"W","e","e","k"," ","E","n","d","i","n","g",":">>, <<"2","0","2","6","-","0","2","-","0","6">>, <<>>, <<>>, <<>>, <<>>, <<>>, <<>>, <<>>>>,
          <<<<"P","r","o","j","e","c","t"," ","C","o","d","e">>, <<"R","O","L","E"," ","A","N","D"," ","S","T","O","R","Y"," ","C","A","R","D"," ","N","U","M","B","E","R">>,
            <<>>, <<>>, <<>>, <<>>, <<>>, <<>>, <<>>>>,
          <<<<"A","p","o","l","l","o">>, <<"D","e","s","i","g","n">>, <<"1">>, <<>>, <<"2">>, <<>>, <<>>, <<>>, <<"0",".","5">>>>>>)

\* the weekly grids parseFile is given alone in a workbook
GridSheets == {WeekSheet, GappedWeekSheet, CardsSheet, ShiftedCardsSheet}

\* ParseFilePlan of each grid, computed once per zone
GridPlanTable ==
  [z \in TimeZones |-> [sheet \in GridSheets |-> ParseFilePlan(z, analyzeSheet(sheet))]]

(* ------------------------------ row checks ------------------------------ *)

\* a row object with a duration, a start and an end column
MkCheckedRow(developer, project, date, duration, start, end) ==
  <<[key |-> <<"D","e","v","e","l","o","p","e","r">>, val |-> developer], [key |-> <<"P","r","o","j","e","c","t">>, val |-> project],
    [key |-> <<"D","a","t","e">>, val |-> date], [key |-> <<"D","u","r","a","t","i","o","n">>, val |-> duration],
    [key |-> <<"S","t","a","r","t"," ","T","i","m","e">>, val |-> start], [key |-> <<"E","n","d"," ","T","i","m","e">>, val |-> end]>>

\* rows that lack any of the required cells, carry a date that does not parse, and
\* give a duration, times, both or neither, the times parseable or not
CheckedRows ==
  {MkCheckedRow(developer, project, date, duration, start, end) :
     developer \in {Ann, Null}, project \in {Apollo, Null},
     date \in {Feb5, Null, Str(<<"s","o","o","n">>)},
     duration \in {Null, Str(<<>>), Str(<<"3","0">>), Str(<<"0">>)},
     start \in {Null, Str(<<"9",":","0","0">>), Str(<<"n","i","n","e">>)},
     end \in {Null, Str(<<"9",":","4","5">>), Str(<<"l","a","t","e">>)}}

\* the texts tried in a Start Time cell
TimeTexts ==
  {<<"9",":","3","0">>, <<"0","9",":","3","0",":","1","5">>, <<"1","2",":","0","0"," ","A","M">>, <<"1","2",":","1","5"," ","P","M">>, <<"1",":","0","0"," ","p","m">>, <<"1","1",":","5","9","P","M">>, <<"0","9","3","0">>, <<"9","3","0">>,
   <<"2","5",":","0","0">>, <<"9",":","7","5">>, <<"2","4","0","0">>, <<"1","3",":","0","0"," ","P","M">>, <<"n","o","o","n">>, <<"9",".","3","0">>, <<"9",":","3">>, <<"1","2">>}

\* otherwise valid rows that start at each of the texts, with a duration or an end
TimeRows ==
  {MkCheckedRow(Ann, Apollo, Feb5, duration, Str(t), end) :
     t \in TimeTexts, duration \in {Null, Str(<<"3","0">>)}, end \in {Null, Str(<<"2","3",":","4","5">>)}}

\* the sheet-level developer of the checked rows: none, or a name
CheckedDefaults == {Undefined, Str(<<"D","a","n","a">>)}

(* ---------------------------- loose headers ---------------------------- *)

\* row-based, under headers that are recognized as header cells and name no field
HoursLogSheet ==
  Sheet(<<"L","o","g">>,
        <<<<<<"E","m","p","l","o","y","e","e"," ","N","a","m","e">>, <<"H","o","u","r","s">>>>,
          <<<<"A","n","n">>, <<"2">>>>,
          <<<<"B","o","b">>, <<"1",".","5">>>>>>)

\* the sheets given alone to parseFile and to the import
LooseSheets == {HoursLogSheet, TimesheetSheet, BadRowsSheet}

\* ParseFilePlan of each of them, computed once per zone
LoosePlanTable ==
  [z \in TimeZones |-> [sheet \in LooseSheets |-> ParseFilePlan(z, analyzeSheet(sheet))]]

(* ------------------------------ persistence ---------------------------- *)

\* bulkCreateEntries' batchSize
BatchSize == 1000

\* the time_entries row of an input (taskId || null, description || null)
NewTimeEntry(input) ==
  [projectId |-> input.projectId, taskId |-> input.taskId, developerId |-> input.developerId,
   startTime |-> input.startTime, durationMinutes |-> input.durationMinutes,
   description |-> IF Truthy(input.description) THEN input.description ELSE Null]

\* the foreign keys of a time_entries row are rows of the store (foreign_keys = ON);
\* a task id of 0 stands for no task
Insertable(entry, d, p, t) ==
  /\ entry.developerId \in 1..Len(d)
  /\ entry.projectId \in 1..Len(p)
  /\ entry.taskId \in 0..Len(t)

\* bulkCreateEntries' insert loop from entry i (0-based), BatchSize rows at a time,
\* each batch in one INSERT statement: [ok, table].  A statement that fails inserts
\* no row of its batch and ends the loop; the rows of the batches before it stay
RECURSIVE InsertBatches(_, _, _, _, _, _)
InsertBatches(table, entries, i, d, p, t) ==
  LET batchEnd == IF i + BatchSize < Len(entries) THEN i + BatchSize ELSE Len(entries)
  IN IF i >= Len(entries) THEN [ok |-> TRUE, table |-> table]
     ELSE IF \E j \in (i + 1)..batchEnd : ~Insertable(entries[j], d, p, t)
       THEN [ok |-> FALSE, table |-> table]
     ELSE InsertBatches(table \o SubSeq(entries, i + 1, batchEnd), entries, i + BatchSize, d, p, t)

\* TimesheetService.bulkCreateEntries on the store tables: [ok, table, created]; it
\* throws (ok = FALSE) before any insert when some duration is invalid, and out of
\* the insert loop when a batch fails
bulkCreateEntries(table, inputs, d, p, t) ==
  LET inserted(done) ==
        [ok |-> done.ok, table |-> done.table, created |-> IF done.ok THEN Len(inputs) ELSE 0]
  IN IF \E i \in 1..Len(inputs) : ~isValidDuration(inputs[i].durationMinutes)
       THEN [ok |-> FALSE, table |-> table, created |-> 0]
       ELSE inserted(InsertBatches(table, [i \in 1..Len(inputs) |-> NewTimeEntry(inputs[i])], 0,
                                   d, p, t))

\* a faulty variant of importExcel's test: it rejects only when nothing was parsed
RejectsEmptyParse(parseResult) == Len(parseResult.entries) = 0

\* importExcel: "if (parseResult.errors.length > 0) throw"
ImportRejects(parseResult) == Len(parseResult.errors) > 0

(* ------------------------------- actions ------------------------------- *)

NoResult == [entries |-> <<>>, sheetName |-> <<>>, detectedDeveloper |-> Null, developers |-> <<>>,
             projects |-> [all |-> <<>>, invalid |-> <<>>], preview |-> <<>>, errors |-> <<>>,
             warnings |-> <<>>]

NoResponse == [kind |-> "none", imported |-> 0, entryCount |-> 0, errors |-> <<>>, warnings |-> <<>>]

(* -------------------------- concurrent imports -------------------------- *)

\* the import-mode invocations that may be in flight at once
ImportIds == {1, 2}

\* an invocation that has not started: its rows, the row and the entity it is
\* resolving, whether the find or the insert comes next, the ids resolved for
\* the current row, the entries pushed, the entities it inserted and its calls
NoImport ==
  [status |-> "idle", rows |-> <<>>, i |-> 1, phase |-> "developer", step |-> "find",
   developerId |-> 0, projectId |-> 0, entries |-> <<>>, created |-> <<>>, calls |-> <<>>]

NoRequest ==
  [endpoint |-> "none", mode |-> "import", workbook |-> <<>>, sheetName |-> <<>>, codes |-> <<>>,
   rows |-> <<>>, firstDataRowNumber |-> DefaultFirstDataRow, defaultDeveloper |-> Undefined]

Init ==
  /\ tz \in TimeZones
  /\ \E seed \in StoreSeeds :
       /\ developers = seed.developers
       /\ projects = seed.projects
       /\ tasks = seed.tasks
  /\ timeEntries = <<>>
  /\ pc = "idle"
  /\ req = NoRequest
  /\ run = NewRun
  /\ result = NoResult
  /\ response = NoResponse
  /\ before = <<developers, projects, tasks, timeEntries>>
  /\ bulkCalls = <<>>
  /\ imports = [p \in ImportIds |-> NoImport]

\* parseRows is entered with the given rows and options
EnterParseRows(endpoint, mode, rows, defaultDeveloper) ==
  /\ req' = [NoRequest EXCEPT !.endpoint = endpoint, !.mode = ModeOrDefault(mode), !.rows = rows,
                              !.defaultDeveloper = defaultDeveloper]
  /\ run' = NewRun
  /\ pc' = "rows"
  /\ before' = store
  /\ UNCHANGED <<imports, tz, developers, projects, tasks, timeEntries, result, response, bulkCalls>>

\* parseFile continues on its plan: it returns a structural failure or enters parseRows
EnterPlanned(endpoint, mode, wb, plan) ==
  /\ before' = store
  /\ run' = NewRun
  /\ IF plan.kind = "failure"
       THEN /\ req' = [NoRequest EXCEPT !.endpoint = endpoint, !.mode = ModeOrDefault(mode),
                                        !.workbook = wb, !.sheetName = plan.result.sheetName]
            /\ result' = plan.result
            /\ pc' = "parsed"
       ELSE /\ req' = [endpoint |-> endpoint, mode |-> ModeOrDefault(mode), workbook |-> wb,
                       sheetName |-> plan.sheetName, codes |-> plan.codes, rows |-> plan.rows,
                       firstDataRowNumber |-> plan.firstDataRowNumber,
                       defaultDeveloper |-> plan.defaultDeveloper]
            /\ result' = result
            /\ pc' = "rows"
  /\ UNCHANGED <<imports, tz, developers, projects, tasks, timeEntries, response, bulkCalls>>

\* parseFile(buffer, { mode }) runs up to its first query of the store: it selects a
\* sheet and either returns a structural failure or enters parseRows
EnterParseFile(endpoint, mode, wb) == EnterPlanned(endpoint, mode, wb, PlanOf(tz, wb))

\* excelParser.parseRows(rows, opts) is called with pre-extracted row objects
CallParseRows ==
  /\ pc = "idle"
  /\ \E rows \in SeqsUpTo(RowUniverse, MaxRows), mode \in {"undefined", "preview", "import"},
        dd \in DefaultDevelopers :
       EnterParseRows("parseRows", mode, rows, dd)

\* excelParser.parseFile(buffer, opts) is called
CallParseFile ==
  /\ pc = "idle"
  /\ \E wb \in Workbooks, mode \in {"undefined", "preview", "import"} :
       EnterParseFile("parseFile", mode, wb)

\* timesheet.parseExcel: "await excelParser.parseFile(buffer)"
CallParseExcel ==
  /\ pc = "idle"
  /\ \E wb \in Workbooks : EnterParseFile("parseExcel", "undefined", wb)

\* timesheet.importExcel: "await excelParser.parseFile(buffer)"
CallImportExcel ==
  /\ pc = "idle"
  /\ \E wb \in Workbooks : EnterParseFile("importExcel", "undefined", wb)

\* one iteration of parseRows' loop: candidates, parseRow, push or catch
ParseRowStep ==
  LET scan(s) ==
        /\ run' = s.locals
        /\ developers' = s.developers
        /\ projects' = s.projects
        /\ tasks' = s.tasks
  IN /\ pc = "rows"
     /\ run.i < Len(req.rows)
     /\ scan(ScanRow(tz, run, req.rows, req.firstDataRowNumber, req.defaultDeveloper, req.mode,
                     developers, projects, tasks))
     /\ UNCHANGED <<imports, tz, timeEntries, pc, req, result, response, before, bulkCalls>>

\* parseRows after the loop: developer detection, project validation, the result
ParseRowsReturn ==
  /\ pc = "rows"
  /\ run.i = Len(req.rows)
  /\ result' = ParseRowsResult(run, req.defaultDeveloper, req.mode, projects)
  /\ pc' = IF req.endpoint = "parseRows" THEN "done" ELSE "finalize"
  /\ UNCHANGED <<imports, tz, developers, projects, tasks, timeEntries, req, run, response, before, bulkCalls>>

\* parseFile: "return finalize(await this.parseRows(...))"
Finalize ==
  /\ pc = "finalize"
  /\ result' = finalize(result, req.mode, req.sheetName, req.codes, projects)
  /\ pc' = "parsed"
  /\ UNCHANGED <<imports, tz, developers, projects, tasks, timeEntries, req, run, response, before, bulkCalls>>

\* parseFile returns to a caller that is not an endpoint
ParseFileReturn ==
  /\ pc = "parsed"
  /\ req.endpoint = "parseFile"
  /\ pc' = "done"
  /\ UNCHANGED <<imports, tz, developers, projects, tasks, timeEntries, req, run, result, response, before,
                 bulkCalls>>

\* timesheet.parseExcel answers with the counts, preview, errors and warnings
ParseExcelReturn ==
  /\ pc = "parsed"
  /\ req.endpoint = "parseExcel"
  /\ response' = [NoResponse EXCEPT !.kind = "parsed", !.entryCount = Len(result.entries),
                                    !.errors = result.errors, !.warnings = result.warnings]
  /\ pc' = "done"
  /\ UNCHANGED <<imports, tz, developers, projects, tasks, timeEntries, req, run, result, before, bulkCalls>>

\* timesheet.importExcel throws 'Parse errors: ...'
ImportExcelReject ==
  /\ pc = "parsed"
  /\ req.endpoint = "importExcel"
  /\ ImportRejects(result)
  /\ response' = [NoResponse EXCEPT !.kind = "rejected", !.errors = result.errors]
  /\ pc' = "done"
  /\ UNCHANGED <<imports, tz, developers, projects, tasks, timeEntries, req, run, result, before, bulkCalls>>

\* timesheet.importExcel persists the entries and answers with their number
ImportExcelPersist ==
  LET persisted(saved) ==
        /\ timeEntries' = saved.table
        /\ bulkCalls' = Append(bulkCalls, result.entries)
        /\ response' = IF saved.ok
                         THEN [NoResponse EXCEPT !.kind = "imported", !.imported = saved.created,
                                                 !.errors = result.errors,
                                                 !.warnings = result.warnings]
                         ELSE [NoResponse EXCEPT !.kind = "failed"]
  IN /\ pc = "parsed"
     /\ req.endpoint = "importExcel"
     /\ ~ImportRejects(result)
     /\ persisted(bulkCreateEntries(timeEntries, result.entries, developers, projects, tasks))
     /\ pc' = "done"
     /\ UNCHANGED <<imports, tz, developers, projects, tasks, req, run, result, before>>

Next ==
  \/ CallParseRows
  \/ CallParseFile
  \/ CallParseExcel
  \/ CallImportExcel
  \/ ParseRowStep
  \/ ParseRowsReturn
  \/ Finalize
  \/ ParseFileReturn
  \/ ParseExcelReturn
  \/ ImportExcelReject
  \/ ImportExcelPersist

Spec == Init /\ [][Next]_vars

(* ------------------------------ long inputs ---------------------------- *)

\* excelParser.parseRows is called with a long row list
CallParseRowsLong ==
  /\ pc = "idle"
  /\ \E rows \in LongRowLists, mode \in {"preview", "import"} :
       EnterParseRows("parseRows", mode, rows, Undefined)

\* excelParser.parseFile is called with the workbook of the long sheet
CallParseFileLong ==
  /\ pc = "idle"
  /\ \E mode \in {"preview", "import"} :
       EnterPlanned("parseFile", mode, <<LongSheet>>, LongPlanTable[tz])

NextLong ==
  \/ Next
  \/ CallParseRowsLong
  \/ CallParseFileLong

SpecLong == Init /\ [][NextLong]_vars

(* ------------------------------ date inputs ---------------------------- *)

\* excelParser.parseRows is called with one row, dated by a slash or a 'YYYY-M-D' date
CallParseRowsDated ==
  /\ pc = "idle"
  /\ \E row \in DatedRows, mode \in {"preview", "import"} :
       EnterParseRows("parseRows", mode, <<row>>, Undefined)

NextDated ==
  \/ CallParseRowsDated
  \/ ParseRowStep
  \/ ParseRowsReturn

SpecDated == Init /\ [][NextDated]_vars

(* ------------------------------ task inputs ---------------------------- *)

\* excelParser.parseRows is called in import mode with rows that name tasks
CallParseRowsTasks ==
  /\ pc = "idle"
  /\ \E rows \in SeqsUpTo(TaskRows, MaxTaskRows) :
       EnterParseRows("parseRows", "import", rows, Undefined)

NextTasks ==
  \/ CallParseRowsTasks
  \/ ParseRowStep
  \/ ParseRowsReturn

SpecTasks == Init /\ [][NextTasks]_vars

(* ----------------------------- bulk inputs ----------------------------- *)

\* the i-th input of a bulk call: a quarter of an hour of developer 1 on project 1;
\* the input at position bad has a duration of 20 minutes (kind "duration") or
\* names a project that is not in the store (kind "project")
BulkInput(i, bad, kind) ==
  [developerId |-> 1,
   projectId |-> IF i = bad /\ kind = "project" THEN 99 ELSE 1,
   taskId |-> 0,
   startTime |-> DateVal(15 * i),
   durationMinutes |-> IF i = bad /\ kind = "duration" THEN 20 ELSE 15,
   description |-> Undefined]

\* the numbers of inputs of a bulk call: within one batch, a full batch, two batches
BulkLengths == {1, 2, 3, BatchSize, BatchSize + 1, BatchSize + 2}

\* the input lists of the bulk calls: every input good, or one bad input at the
\* first, the second or the last position
BulkInputs ==
  {[i \in 1..n |-> BulkInput(i, bad, kind)] :
     n \in BulkLengths, bad \in {0, 1, 2, BatchSize + 1, BatchSize + 2}, kind \in {"duration", "project"}}

(* ------------------------------ bulk inserts --------------------------- *)

\* timesheetService.bulkCreateEntries(inputs) is called and runs to its end
CallBulkCreateEntries ==
  LET called(inputs, saved) ==
        /\ req' = [NoRequest EXCEPT !.endpoint = "bulkCreateEntries"]
        /\ timeEntries' = saved.table
        /\ bulkCalls' = Append(bulkCalls, inputs)
        /\ response' = IF saved.ok THEN [NoResponse EXCEPT !.kind = "imported", !.imported = saved.created]
                        ELSE [NoResponse EXCEPT !.kind = "failed"]
  IN /\ pc = "idle"
     /\ \E inputs \in BulkInputs :
          called(inputs, bulkCreateEntries(timeEntries, inputs, developers, projects, tasks))
     /\ pc' = "done"
     /\ before' = store
     /\ UNCHANGED <<imports, tz, developers, projects, tasks, run, result>>

NextBulk == CallBulkCreateEntries

SpecBulk == Init /\ [][NextBulk]_vars

(* ------------------------------ grid inputs ----------------------------- *)

\* excelParser.parseFile is called with a workbook of one weekly grid
CallParseFileGrids ==
  /\ pc = "idle"
  /\ \E sheet \in GridSheets, mode \in {"preview", "import"} :
       EnterPlanned("parseFile", mode, <<sheet>>, GridPlanTable[tz][sheet])

NextGrids ==
  \/ CallParseFileGrids
  \/ ParseRowStep
  \/ ParseRowsReturn
  \/ Finalize
  \/ ParseFileReturn

SpecGrids == Init /\ [][NextGrids]_vars

(* ------------------------------ row checks ------------------------------ *)

\* excelParser.parseRows is called with one row to check
CallParseRowsChecked ==
  /\ pc = "idle"
  /\ \E row \in CheckedRows \cup TimeRows, mode \in {"preview", "import"}, dd \in CheckedDefaults :
       EnterParseRows("parseRows", mode, <<row>>, dd)

NextChecked ==
  \/ CallParseRowsChecked
  \/ ParseRowStep
  \/ ParseRowsReturn

SpecChecked == Init /\ [][NextChecked]_vars

(* ---------------------------- loose headers ---------------------------- *)

\* excelParser.parseFile is called with a workbook of one row-based sheet
CallParseFileLoose ==
  /\ pc = "idle"
  /\ \E sheet \in LooseSheets, mode \in {"preview", "import"} :
       EnterPlanned("parseFile", mode, <<sheet>>, LoosePlanTable[tz][sheet])

\* timesheet.importExcel is called with a workbook of one row-based sheet
CallImportExcelLoose ==
  /\ pc = "idle"
  /\ \E sheet \in LooseSheets :
       EnterPlanned("importExcel", "undefined", <<sheet>>, LoosePlanTable[tz][sheet])

NextLoose ==
  \/ CallParseFileLoose
  \/ CallImportExcelLoose
  \/ ParseRowStep
  \/ ParseRowsReturn
  \/ Finalize
  \/ ParseFileReturn
  \/ ImportExcelReject
  \/ ImportExcelPersist

SpecLoose == Init /\ [][NextLoose]_vars

(* --------------------------- timesheet service -------------------------- *)

\* the most rows time_entries has in the runs of the service
MaxStored == 2

\* the durations given to the service: multiples of 15, zero, negative, in between
ServiceDurations == {0, 15, 20, 30, -15}

\* a TimeEntryInput for developer 1 and project 1 with the given duration
ServiceInput(minutes) ==
  [developerId |-> 1, projectId |-> 1, taskId |-> 0, startTime |-> DateVal(0),
   durationMinutes |-> minutes, description |-> Undefined]

\* the input lists of the bulk calls of the service runs
ServiceInputLists ==
  {<<ServiceInput(a)>> : a \in ServiceDurations}
    \cup {<<ServiceInput(a), ServiceInput(b)>> : a, b \in ServiceDurations}

\* the Partial<TimeEntryInput> given to updateEntry: the fields present, their values
ServiceUpdates ==
  {[fields |-> {"durationMinutes"}, durationMinutes |-> m, description |-> Undefined] :
     m \in ServiceDurations}
    \cup {[fields |-> {"description"}, durationMinutes |-> 0, description |-> Str(<<"x">>)],
          [fields |-> {"durationMinutes", "description"}, durationMinutes |-> 45,
           description |-> Str(<<"x">>)]}

\* the row a DELETE leaves at an id: ids are not used again
DeletedRow ==
  [projectId |-> 0, taskId |-> 0, developerId |-> 0, startTime |-> DateVal(0), durationMinutes |-> 0,
   description |-> Null]

\* the ids of the rows of time_entries
StoredIds(table) == {id \in 1..Len(table) : table[id] # DeletedRow}

\* TimesheetService.createEntry on the store tables: [ok, table]
createEntry(table, input, d, p, t) ==
  IF ~isValidDuration(input.durationMinutes) THEN [ok |-> FALSE, table |-> table]
  ELSE IF ~Insertable(NewTimeEntry(input), d, p, t) THEN [ok |-> FALSE, table |-> table]
  ELSE [ok |-> TRUE, table |-> Append(table, NewTimeEntry(input))]

\* the row of an UPDATE ... SET of the fields present in updates
UpdatedRow(row, updates) ==
  [row EXCEPT !.durationMinutes = IF "durationMinutes" \in updates.fields
                                    THEN updates.durationMinutes ELSE @,
              !.description = IF "description" \in updates.fields THEN updates.description ELSE @]

\* TimesheetService.updateEntry: "if (updates.durationMinutes &&
\* !isValidDuration(updates.durationMinutes)) throw", then the UPDATE of the row
updateEntry(table, id, updates) ==
  IF /\ "durationMinutes" \in updates.fields
     /\ updates.durationMinutes # 0
     /\ ~isValidDuration(updates.durationMinutes)
    THEN [ok |-> FALSE, table |-> table]
  ELSE IF id \in StoredIds(table)
    THEN [ok |-> TRUE, table |-> [table EXCEPT ![id] = UpdatedRow(table[id], updates)]]
  ELSE [ok |-> TRUE, table |-> table]

\* TimesheetService.deleteEntry: the DELETE of the row, true when a row was deleted
deleteEntry(table, id) ==
  IF id \in StoredIds(table)
    THEN [ok |-> TRUE, table |-> [table EXCEPT ![id] = DeletedRow]]
    ELSE [ok |-> FALSE, table |-> table]

\* a call of the service has returned or thrown
ServiceCalled(endpoint, done) ==
  /\ Len(done.table) <= MaxStored
  /\ timeEntries' = done.table
  /\ req' = [NoRequest EXCEPT !.endpoint = endpoint]
  /\ response' = [NoResponse EXCEPT !.kind = IF done.ok THEN "saved" ELSE "failed"]
  /\ UNCHANGED <<imports, tz, developers, projects, tasks, pc, run, result, before, bulkCalls>>

\* timesheetService.createEntry(input) is called
CallCreateEntry ==
  /\ pc = "idle"
  /\ \E m \in ServiceDurations :
       ServiceCalled("createEntry",
                     createEntry(timeEntries, ServiceInput(m), developers, projects, tasks))

\* timesheetService.bulkCreateEntries(inputs) is called
CallBulkCreateService ==
  /\ pc = "idle"
  /\ \E inputs \in ServiceInputLists :
       ServiceCalled("bulkCreateEntries",
                     bulkCreateEntries(timeEntries, inputs, developers, projects, tasks))

\* timesheetService.updateEntry(id, updates) is called
CallUpdateEntry ==
  /\ pc = "idle"
  /\ \E id \in 1..(MaxStored + 1), updates \in ServiceUpdates :
       ServiceCalled("updateEntry", updateEntry(timeEntries, id, updates))

\* timesheetService.deleteEntry(id) is called
CallDeleteEntry ==
  /\ pc = "idle"
  /\ \E id \in 1..(MaxStored + 1) : ServiceCalled("deleteEntry", deleteEntry(timeEntries, id))

NextService ==
  \/ CallCreateEntry
  \/ CallBulkCreateService
  \/ CallUpdateEntry
  \/ CallDeleteEntry

SpecService == Init /\ [][NextService]_vars

(* ------------- entity resolution of imports, one await at a time ------------- *)

\* the key the current row is looked up by in the table of the current entity
ResolveKey(imp) ==
  CASE imp.phase = "developer" -> imp.rows[imp.i].developer
    [] imp.phase = "project" -> imp.rows[imp.i].project
    [] imp.phase = "task" -> [projectId |-> imp.projectId, name |-> imp.rows[imp.i].task]

\* the table of the current entity
ResolveTable(imp) ==
  CASE imp.phase = "developer" -> developers
    [] imp.phase = "project" -> projects
    [] imp.phase = "task" -> tasks

\* parseRows: entries.push(entry), then the loop's next row
EntryPushed(imp, taskId) ==
  [imp EXCEPT !.entries = Append(imp.entries, [developerId |-> imp.developerId,
                                               projectId |-> imp.projectId, taskId |-> taskId]),
              !.i = imp.i + 1,
              !.phase = "developer",
              !.step = "find",
              !.status = IF imp.i = Len(imp.rows) THEN "done" ELSE "running"]

\* parseRow after the awaited getOrCreate call returned id: the next call
Resolved(imp, id) ==
  CASE imp.phase = "developer" -> [imp EXCEPT !.developerId = id, !.phase = "project", !.step = "find"]
    [] imp.phase = "project" ->
         IF imp.rows[imp.i].task = <<>> THEN EntryPushed([imp EXCEPT !.projectId = id], 0)
         ELSE [imp EXCEPT !.projectId = id, !.phase = "task", !.step = "find"]
    [] imp.phase = "task" -> EntryPushed(imp, id)

\* a faulty variant of InsertRow: a uniqueness constraint refuses a second row
\* of the same name
InsertUniqueRow(table, values) ==
  IF \E id \in 1..Len(table) : table[id] = values THEN table ELSE Append(table, values)

\* an insert into developers, projects or tasks: the schema declares no
\* uniqueness on name, the row is added whatever the table holds
InsertRow(table, values) == Append(table, values)

\* the call is recorded in the invocation's log
Logged(imp) == [imp EXCEPT !.calls = Append(imp.calls, <<imp.i, imp.phase, imp.step>>)]

\* importExcel in import mode is invoked with rows that parse
StartImport(p) ==
  /\ imports[p].status = "idle"
  /\ \E rows \in RowListsOf(p) :
       imports' = [imports EXCEPT ![p] = [NoImport EXCEPT !.status = "running", !.rows = rows]]
  /\ UNCHANGED <<tz, developers, projects, tasks, timeEntries, pc, req, run, result, response, before,
                 bulkCalls>>

\* getOrCreateX: "const existing = await db.query.X.findFirst(...)"
FindStep(p) ==
  /\ imports[p].status = "running"
  /\ imports[p].step = "find"
  /\ imports' = [imports EXCEPT ![p] =
       IF FirstId(IdsByName(ResolveTable(imports[p]), ResolveKey(imports[p]))) # 0
       THEN Resolved(Logged(imports[p]), FirstId(IdsByName(ResolveTable(imports[p]), ResolveKey(imports[p]))))
       ELSE [Logged(imports[p]) EXCEPT !.step = "create"]]
  /\ UNCHANGED <<tz, developers, projects, tasks, timeEntries, pc, req, run, result, response, before,
                 bulkCalls>>

\* getOrCreateX: "const result = await db.insert(X).values(...).returning()"
CreateStep(p) ==
  /\ imports[p].status = "running"
  /\ imports[p].step = "create"
  /\ developers' = IF imports[p].phase = "developer"
                   THEN InsertRow(developers, ResolveKey(imports[p])) ELSE developers
  /\ projects' = IF imports[p].phase = "project"
                 THEN InsertRow(projects, ResolveKey(imports[p])) ELSE projects
  /\ tasks' = IF imports[p].phase = "task" THEN InsertRow(tasks, ResolveKey(imports[p])) ELSE tasks
  /\ imports' = [imports EXCEPT ![p] =
       Resolved([Logged(imports[p]) EXCEPT
                   !.created = Append(imports[p].created,
                                      <<imports[p].phase, Len(ResolveTable(imports[p])) + 1>>)],
                Len(ResolveTable(imports[p])) + 1)]
  /\ UNCHANGED <<tz, timeEntries, pc, req, run, result, response, before, bulkCalls>>

NextConcurrent == \E p \in ImportIds : StartImport(p) \/ FindStep(p) \/ CreateStep(p)

SpecConcurrent == Init /\ [][NextConcurrent]_vars


(* ------------------------------ properties ----------------------------- *)

\* an error line 'Row n: ...' for a row number n
IsRowError(e) ==
  /\ StartsWith(e, <<"R","o","w"," ">>)
  /\ \E k \in 6..(Len(e) - 1) : AllDigits(SubSeq(e, 5, k - 1)) /\ e[k] = ":" /\ e[k + 1] = " "

\* the synthesized summary line
IsInvalidProjectsLine(e) == StartsWith(e, <<"I","n","v","a","l","i","d"," ","p","r","o","j","e","c","t","s"," ","(">>)

\* the error lines of parseFile's workbook-structure failures
StructureLines ==
  {NoWeekdayHeaderError, NoProjectColumnError, NoTaskColumnError}
    \cup Range(NoDatesErrors) \cup Range(NoHoursErrors)
    \cup Range(NoHeaderRowErrors(TRUE)) \cup Range(NoHeaderRowErrors(FALSE))

\* the request in flight has returned its Parse Result
Returned == pc \in {"parsed", "done"}

\* the time entries the request found in the store
EntriesBefore == before[4]

\* the entries were persisted, in order, after the time entries found in the store
PersistedInOrder(entries) ==
  /\ Len(timeEntries) = Len(EntriesBefore) + Len(entries)
  /\ SubSeq(timeEntries, 1, Len(EntriesBefore)) = EntriesBefore
  /\ \A i \in 1..Len(entries) :
       /\ timeEntries[Len(EntriesBefore) + i].developerId = entries[i].developerId
       /\ timeEntries[Len(EntriesBefore) + i].projectId = entries[i].projectId
       /\ timeEntries[Len(EntriesBefore) + i].startTime = entries[i].startTime
       /\ timeEntries[Len(EntriesBefore) + i].durationMinutes = entries[i].durationMinutes

\* C1: importExcel is all-or-nothing on parse errors.  Until it answers it has not
\* called bulkCreateEntries; when the parse result has errors it rejects, without a
\* call of bulkCreateEntries and without a new time entry; when it has none (with
\* or without warnings) it calls bulkCreateEntries once, with every parsed entry,
\* and answers imported = the number of entries persisted.
C1_ImportAllOrNothing ==
  req.endpoint = "importExcel" =>
    /\ pc # "done" => bulkCalls = <<>> /\ timeEntries = EntriesBefore
    /\ pc = "done" /\ result.errors # <<>> =>
         response.kind = "rejected" /\ bulkCalls = <<>> /\ timeEntries = EntriesBefore
    /\ pc = "done" /\ result.errors = <<>> =>
         /\ response.kind = "imported"
         /\ bulkCalls = <<result.entries>>
         /\ response.imported = Len(result.entries)
         /\ PersistedInOrder(result.entries)

\* importExcel rejected a file in which some rows were valid
C1_Witness ==
  /\ pc = "done"
  /\ req.endpoint = "importExcel"
  /\ response.kind = "rejected"
  /\ result.entries # <<>>
  /\ timeEntries = <<>>

\* C2: an import of a batch in which a row produced a row error leaves no record of
\* any kind: no time entry, and no developer, project or task that was not in the
\* store before.
C2_NoRecordAfterRowError ==
  (/\ req.endpoint = "importExcel"
   /\ pc = "done"
   /\ \E i \in 1..Len(result.errors) : IsRowError(result.errors[i]))
    => /\ timeEntries = EntriesBefore
       /\ developers = before[1]
       /\ projects = before[2]
       /\ tasks = before[3]

\* C3: parseRows and parseFile in preview mode never change the entity store.
C3_PreviewLeavesStore ==
  (pc # "idle" /\ req.mode = "preview") => store = before

\* a preview returned entries for a project that is not in the store
C3_Witness ==
  /\ pc = "done"
  /\ req.mode = "preview"
  /\ result.entries # <<>>
  /\ result.projects.invalid # <<>>
  /\ store = before

\* C4: timesheet.parseExcel creates no developer, project or task.
C4_ParseExcelLeavesStore ==
  req.endpoint = "parseExcel" =>
    developers = before[1] /\ projects = before[2] /\ tasks = before[3]

\* the last element of a non-empty list
Last(q) == q[Len(q)]

\* the integer in a Duration cell: a whole number, or text of digits
CellInteger(v) ==
  IF v.k = "num" /\ v.n % 100 = 0 THEN [known |-> TRUE, d |-> v.n \div 100]
  ELSE IF v.k = "str" /\ AllDigits(v.s) THEN [known |-> TRUE, d |-> DigitsToNat(v.s)]
  ELSE [known |-> FALSE, d |-> 0]

\* the minutes between two parsed times
MinutesBetween(startTime, endTime) ==
  IF startTime = Null \/ endTime = Null THEN [known |-> FALSE, d |-> 0]
  ELSE [known |-> TRUE, d |-> endTime.n - startTime.n]

\* the integer duration of a row whose date is parsed: explicit, or derived from
\* start and end
IntegerDuration(z, normalized, date) ==
  IF ~IsNullish(normalized["durationMinutes"]) /\ normalized["durationMinutes"] # Str(<<>>)
    THEN CellInteger(normalized["durationMinutes"])
  ELSE IF Truthy(normalized["startTime"]) /\ Truthy(normalized["endTime"])
    THEN MinutesBetween(parseTime(z, date, normalized["startTime"]),
                        parseTime(z, date, normalized["endTime"]))
  ELSE [known |-> FALSE, d |-> 0]

\* developer, project and date of the row are given and the date parses
OtherwiseValid(z, normalized, defaultDeveloper) ==
  /\ Truthy(normalized["developer"]) \/ Truthy(defaultDeveloper)
  /\ Truthy(normalized["project"])
  /\ Truthy(normalized["date"])
  /\ parseDate(z, normalized["date"]) # Null

\* the step of parseRows' loop accepts the row with duration d
Accepts(d) ==
  /\ Len(run'.entries) = Len(run.entries) + 1
  /\ Last(run'.entries).durationMinutes = d
  /\ Len(run'.preview) >= Len(run.preview)
  /\ run'.errors = run.errors

\* the step of parseRows' loop rejects the row with an error that contains text
Rejects(text) ==
  /\ run'.entries = run.entries
  /\ run'.preview = run.preview
  /\ Len(run'.errors) = Len(run.errors) + 1
  /\ SubSeq(run'.errors, 1, Len(run.errors)) = run.errors
  /\ Includes(Last(run'.errors), text)

\* the duration rule on a row of integer duration dur.d
DurationRuleOn(dur) ==
  dur.known =>
    IF dur.d > 0 /\ dur.d % 15 = 0 THEN Accepts(dur.d)
    ELSE IF dur.d <= 0 THEN Rejects(<<"D","u","r","a","t","i","o","n"," ","m","u","s","t"," ","b","e"," ","g","r","e","a","t","e","r"," ","t","h","a","n"," ","0">>)
    ELSE Rejects(<<"m","u","l","t","i","p","l","e"," ","o","f"," ","1","5"," ","m","i","n","u","t","e","s">>)

\* the duration rule on the row the loop is at
DurationRuleAt(z, normalized, defaultDeveloper) ==
  OtherwiseValid(z, normalized, defaultDeveloper) =>
    DurationRuleOn(IntegerDuration(z, normalized, parseDate(z, normalized["date"])))

\* every entry has a positive duration that is a multiple of 15 minutes
ValidDurations(entries) ==
  \A i \in 1..Len(entries) :
    entries[i].durationMinutes > 0 /\ entries[i].durationMinutes % 15 = 0

\* C5: the duration rule of row validation.  A row that is otherwise valid, of
\* integer duration d (explicit, or derived from start and end), is accepted iff
\* d > 0 and d % 15 = 0; with d <= 0 it is rejected with an error that contains
\* 'Duration must be greater than 0', with any other d with one that contains
\* 'multiple of 15 minutes'.  Every entry of a Parse Result has durationMinutes > 0
\* and durationMinutes % 15 = 0.
C5_DurationRule ==
  /\ [][(pc = "rows" /\ run.i < Len(req.rows))
          => DurationRuleAt(tz, normalizeColumnNames(req.rows[run.i + 1]), req.defaultDeveloper)]_vars
  /\ [](ValidDurations(run.entries) /\ ValidDurations(result.entries))

\* one parse accepted a row and rejected a row for each of the two reasons
C5_Witness ==
  /\ Returned
  /\ result.entries # <<>>
  /\ \E i \in 1..Len(result.errors) : Includes(result.errors[i], <<"D","u","r","a","t","i","o","n"," ","m","u","s","t"," ","b","e"," ","g","r","e","a","t","e","r"," ","t","h","a","n"," ","0">>)
  /\ \E i \in 1..Len(result.errors) : Includes(result.errors[i], <<"m","u","l","t","i","p","l","e"," ","o","f"," ","1","5"," ","m","i","n","u","t","e","s">>)

\* the preview row p describes the row of entry e
SameRow(p, e) ==
  /\ p.startTime = e.startTime
  /\ p.durationMinutes = e.durationMinutes
  /\ p.notes = e.description
  /\ req.mode = "import" =>
       /\ developers[e.developerId] = ToStr(p.developer)
       /\ projects[e.projectId] = ToStr(p.project)

\* the preview is the first ten of the entries
FirstTen(preview, entries) ==
  /\ Len(preview) = (IF Len(entries) < 10 THEN Len(entries) ELSE 10)
  /\ \A i \in 1..Len(preview) : SameRow(preview[i], entries[i])

\* C6: in parseRows, and in every result of parseRows and parseFile,
\* preview.length = min(10, entries.length) and preview[i] describes the row of
\* entries[i], however many other rows fail.
C6_PreviewIsFirstTen ==
  FirstTen(run.preview, run.entries) /\ FirstTen(result.preview, result.entries)

\* a parse of more than ten valid rows, with rows that failed, returned ten preview rows
C6_Witness ==
  /\ pc = "done"
  /\ Len(result.entries) > 10
  /\ result.errors # <<>>
  /\ Len(result.preview) = 10

\* C7, as stated: each element of errors is prefixed 'Row n: ', except the single
\* 'Invalid projects (...)' summary line.
C7_RowPrefixedOrSummary ==
  Returned =>
    /\ \A i \in 1..Len(result.errors) :
         IsRowError(result.errors[i]) \/ IsInvalidProjectsLine(result.errors[i])
    /\ Cardinality({i \in 1..Len(result.errors) : IsInvalidProjectsLine(result.errors[i])}) <= 1

\* C7, amended: either parseFile stopped on a workbook-structure failure (no row was
\* scanned, entries and preview are empty, and every error is one of the structure
\* lines, which carry no row number), or each element of errors is prefixed
\* 'Row n: ', except the 'Invalid projects (...)' summary line, which is single and
\* comes first.
C7_ErrorLines ==
  Returned =>
    \/ /\ req.endpoint # "parseRows"
       /\ run.i = 0
       /\ result.entries = <<>> /\ result.preview = <<>>
       /\ result.errors # <<>>
       /\ \A i \in 1..Len(result.errors) : result.errors[i] \in StructureLines
    \/ \A i \in 1..Len(result.errors) :
         \/ IsRowError(result.errors[i])
         \/ i = 1 /\ IsInvalidProjectsLine(result.errors[i])

\* a preview returned the summary line followed by a row error
C7_Witness ==
  /\ pc = "done"
  /\ Len(result.errors) >= 2
  /\ IsInvalidProjectsLine(result.errors[1])
  /\ IsRowError(result.errors[2])

\* the outcome of the step of parseRows' loop on row i is that of parsed, the row
\* parsed alone: one entry, one error 'Row n: message' with n = first + i, or nothing
OutcomeOf(parsed, first, i) ==
  /\ run'.i = i + 1
  /\ parsed.kind = "entry" =>
       /\ Len(run'.entries) = Len(run.entries) + 1
       /\ SubSeq(run'.entries, 1, Len(run.entries)) = run.entries
       /\ Last(run'.entries).startTime = parsed.entry.startTime
       /\ Last(run'.entries).durationMinutes = parsed.entry.durationMinutes
       /\ Last(run'.entries).description = parsed.entry.description
       /\ run'.errors = run.errors
  /\ parsed.kind = "error" =>
       /\ run'.errors = Append(run.errors, <<"R","o","w"," ">> \o NatToStr(first + i) \o <<":"," ">> \o parsed.message)
       /\ run'.entries = run.entries
  /\ parsed.kind = "blank" => run'.entries = run.entries /\ run'.errors = run.errors

\* the first row number of the request: 2 unless parseFile gave one
FirstRowNumber == IF req.endpoint = "parseRows" THEN 2 ELSE req.firstDataRowNumber

\* C8: row failures are isolated in parseRows.  Row i (from 0) yields exactly one of
\* one entry, one error 'Row n: message' with n = firstDataRowNumber + i
\* (firstDataRowNumber is 2 by default), or nothing when it is blank; the outcome is
\* the one the row has alone, on the store the request found; the scan is never
\* aborted: parseRows returns after the last row only.
C8_RowsIsolated ==
  /\ [][(pc = "rows" /\ run.i < Len(req.rows))
          => OutcomeOf(parseRow(tz, req.rows[run.i + 1], 0, req.defaultDeveloper, req.mode,
                                before[1], before[2], before[3]),
                       FirstRowNumber, run.i)]_vars
  /\ []((Returned /\ run.i > 0) => run.i = Len(req.rows))
  /\ [](Len(run.entries) + Len(run.errors) <= run.i)

\* parseRows went on after a failing first row and returned the entry of the second
C8_Witness ==
  /\ pc = "done"
  /\ req.endpoint = "parseRows"
  /\ Len(req.rows) = 2
  /\ Len(result.errors) = 1
  /\ StartsWith(result.errors[1], <<"R","o","w"," ","2",":"," ">>)
  /\ Len(result.entries) = 1

\* the first error line of the workbook-structure failure of each sheet of the model
\* that has one: no header row, no dates (twice), no project column, no hours
ExpectedFailure ==
  [name \in {<<"V","a","r","i","a","b","l","e">>, <<"G","r","i","d">>, <<"C","o","d","e","s">>, <<"I","t","e","m","s">>, <<"I","d","l","e">>} |->
     IF name = <<"V","a","r","i","a","b","l","e">> THEN NoHeaderRowErrors(FALSE)[1]
     ELSE IF name \in {<<"G","r","i","d">>, <<"C","o","d","e","s">>} THEN NoDatesErrors[1]
     ELSE IF name = <<"I","t","e","m","s">> THEN NoProjectColumnError
     ELSE NoHoursErrors[1]]

\* parseFile returned without any entry
NoEntries == result.entries = <<>> /\ result.preview = <<>> /\ result.errors # <<>>

\* C9: every workbook-structure failure of parseFile (no header row and no weekly
\* grid; a grid without resolvable dates; a grid without Project or Task column; a
\* grid without positive hours) short-circuits the parse: no row is scanned, the
\* store is left alone, and the result has entries = [], preview = [] and the
\* errors of the failure.
C9_StructureFailures ==
  (Returned /\ req.endpoint # "parseRows") =>
    /\ req.sheetName \in DOMAIN ExpectedFailure =>
         /\ NoEntries
         /\ result.errors[1] = ExpectedFailure[req.sheetName]
         /\ run.i = 0
         /\ store = before
    /\ (\E i \in 1..Len(result.errors) : result.errors[i] \in StructureLines) => NoEntries

\* the grid without positive hours that can be dated failed, with its warnings
C9_Witness ==
  /\ pc = "done"
  /\ req.sheetName = <<"I","d","l","e">>
  /\ result.errors = NoHoursErrors
  /\ result.warnings # <<>>
  /\ result.entries = <<>>

\* the analysis of the sheet parseFile selected
SelectedAnalysis ==
  AnalysisTable[CHOOSE sheet \in SheetUniverse : sheet.name = req.sheetName]

RouteTable ==
  [sheet \in SheetUniverse |->
     PlanKind(AnalysisTable[sheet],
              NormalizedKeys(sheetToJson(sheet.matrix, UsedHeaderRow(AnalysisTable[sheet]))))]

\* the sheets whose rows come from the weekly-grid conversion
ConvertedSheets ==
  {sheet \in SheetUniverse :
     RouteTable[sheet] = "grid" /\ \A z \in TimeZones : PlanTable[z][sheet].kind = "rows"}

\* the layout the conversion finds on a grid: the header row, the day columns, the
\* project and task columns, the first data row and the date of each day
GridLayout(z, matrix) ==
  LET at(header, projectCol, foundTaskCol) ==
        [dayCols |-> header.dayCols, projectCol |-> projectCol,
         taskCol |-> IF foundTaskCol < 0 THEN projectCol + 1 ELSE foundTaskCol,
         dataStartRow |->
           IF \E i \in 1..Len(header.dayCols) :
                isPlausibleHeaderDate(z, CellAt(matrix, header.headerRow + 1, header.dayCols[i].col))
             THEN header.headerRow + 2 ELSE header.headerRow + 1,
         dayDates |-> DayDates(z, matrix, header.headerRow, header.dayCols, WeekEnding(z, matrix))]
  IN at(GridHeader(matrix), FindCol(matrix, GridHeader(matrix).headerRow, {<<"p","r","o","j","e","c","t">>, <<"c","l","i","e","n","t">>, <<"j","o","b">>}),
        FindCol(matrix, GridHeader(matrix).headerRow,
                {<<"t","a","s","k">>, <<"a","c","t","i","v","i","t","y">>, <<"w","o","r","k"," ","i","t","e","m">>, <<"w","o","r","k","i","t","e","m">>, <<"d","e","s","c","r","i","p","t","i","o","n">>, <<"r","o","l","e">>,
                 <<"s","t","o","r","y">>, <<"c","a","r","d">>}))

LayoutTable == [z \in TimeZones |-> [sheet \in ConvertedSheets |-> GridLayout(z, sheet.matrix)]]

\* the day cells of the data rows of a grid, row by row and, in a row, day column
\* by day column: <<row, position among the day columns>>
DayCells(matrix, layout) ==
  [k \in 1..((Len(matrix) - layout.dataStartRow) * Len(layout.dayCols)) |->
     <<layout.dataStartRow + ((k - 1) \div Len(layout.dayCols)),
       ((k - 1) % Len(layout.dayCols)) + 1>>]

\* the hours of a day cell, in hundredths: 0 for a blank or non-numeric cell
CellHours(matrix, layout, cell) ==
  LET of(v) == IF v.k = "str" /\ IsNumericText(Trim(v.s)) THEN NumberOfText(v.s).n
               ELSE IF v.k = "num" THEN v.n ELSE 0
  IN of(CellAt(matrix, cell[1], layout.dayCols[cell[2]].col))

ProjectText(matrix, layout, r) == TrimmedText(CellAt(matrix, r, layout.projectCol))

TaskText(matrix, layout, r) == TrimmedText(CellAt(matrix, r, layout.taskCol))

\* a total or subtotal row
IsTotalRow(matrix, layout, r) ==
  \/ Includes(ToLower(ProjectText(matrix, layout, r)), <<"t","o","t","a","l">>)
  \/ Includes(ToLower(TaskText(matrix, layout, r)), <<"t","o","t","a","l">>)

\* a blank row: no project or task text and no number in any day column
IsBlankGridRow(matrix, layout, r) ==
  /\ ProjectText(matrix, layout, r) = <<>>
  /\ TaskText(matrix, layout, r) = <<>>
  /\ \A i \in 1..Len(layout.dayCols) : CellHours(matrix, layout, <<r, i>>) = 0

\* the cells with positive hours in the rows that are neither blank nor totals
PositiveCells(matrix, layout) ==
  SelectSeq(DayCells(matrix, layout),
            LAMBDA cell : /\ ~IsBlankGridRow(matrix, layout, cell[1])
                          /\ ~IsTotalRow(matrix, layout, cell[1])
                          /\ CellHours(matrix, layout, cell) > 0)

\* of these, the cells of the rows that give a project and a task, in the day
\* columns that have a date
ConvertibleCells(matrix, layout) ==
  SelectSeq(PositiveCells(matrix, layout),
            LAMBDA cell : /\ ProjectText(matrix, layout, cell[1]) # <<>>
                          /\ TaskText(matrix, layout, cell[1]) # <<>>
                          /\ layout.dayDates[layout.dayCols[cell[2]].dayIndex] # Null)

\* Math.round(hours * 60), by the nearest whole minute
RoundedMinutes(h100) ==
  CHOOSE m \in 0..(((h100 * 60) \div 100) + 1) :
    2 * (100 * m - h100 * 60) <= 100 /\ 2 * (h100 * 60 - 100 * m) < 100

\* what a cell is to yield: the minutes, the date, the project and the task
CellYield(matrix, layout, cell) ==
  [durationMinutes |-> RoundedMinutes(CellHours(matrix, layout, cell)),
   startTime |-> layout.dayDates[layout.dayCols[cell[2]].dayIndex],
   project |-> Str(ProjectText(matrix, layout, cell[1])),
   task |-> Str(TaskText(matrix, layout, cell[1]))]

CellYields(matrix, layout, cells) == [i \in 1..Len(cells) |-> CellYield(matrix, layout, cells[i])]

\* per converted sheet and zone: the yields of the cells with positive hours, and of
\* the convertible ones among them
YieldTable ==
  [z \in TimeZones |->
     [sheet \in ConvertedSheets |->
        [positive |-> CellYields(sheet.matrix, LayoutTable[z][sheet],
                                 PositiveCells(sheet.matrix, LayoutTable[z][sheet])),
         convertible |-> CellYields(sheet.matrix, LayoutTable[z][sheet],
                                    ConvertibleCells(sheet.matrix, LayoutTable[z][sheet]))]]]

\* the converted sheet parseFile selected
SelectedSheet == CHOOSE sheet \in ConvertedSheets : sheet.name = req.sheetName

\* parseFile returned the result of a converted weekly grid
GridReturned ==
  /\ pc \in {"parsed", "done"}
  /\ req.endpoint # "parseRows"
  /\ \E sheet \in ConvertedSheets : sheet.name = req.sheetName

\* the entries and the preview of the result are those of the yields, one by one
EntriesAre(yields, developer) ==
  /\ Len(result.entries) = Len(yields)
  /\ Len(result.preview) = Len(yields)
  /\ \A i \in 1..Len(yields) :
       /\ result.entries[i].durationMinutes = yields[i].durationMinutes
       /\ result.entries[i].startTime = yields[i].startTime
       /\ result.preview[i].developer = developer
       /\ result.preview[i].project = yields[i].project
       /\ result.preview[i].task = yields[i].task

\* C11, as stated: in a converted weekly grid every cell with positive hours of a
\* row that is neither blank nor a total yields exactly one entry of
\* round(hours * 60) minutes, on the date of its day column, with the developer of
\* the sheet and the project and task of its row; no other cell yields any.
C11_EveryPositiveCell ==
  GridReturned =>
    EntriesAre(YieldTable[tz][SelectedSheet].positive, req.defaultDeveloper)

\* C11, amended: the conversion yields one row object per cell with positive hours
\* of a row that gives both a project and a task and is no total, in a day column
\* whose date is known, with Duration = round(hours * 60), that date, the developer
\* of the sheet ('' when none) and the project and task of the row; no other cell
\* yields any.  Of these row objects, those whose minutes are a multiple of 15
\* become the entries, in order, when the sheet names a developer; every other one
\* becomes a row error.
C11_GridConversion ==
  GridReturned =>
    /\ Len(req.rows) = Len(YieldTable[tz][SelectedSheet].convertible)
    /\ \A i \in 1..Len(req.rows) :
         /\ FieldValue(req.rows[i], "durationMinutes")
              = Num(100 * YieldTable[tz][SelectedSheet].convertible[i].durationMinutes)
         /\ FieldValue(req.rows[i], "date") = YieldTable[tz][SelectedSheet].convertible[i].startTime
         /\ FieldValue(req.rows[i], "project") = YieldTable[tz][SelectedSheet].convertible[i].project
         /\ FieldValue(req.rows[i], "task") = YieldTable[tz][SelectedSheet].convertible[i].task
         /\ FieldValue(req.rows[i], "developer")
              = IF IsNullish(req.defaultDeveloper) THEN Str(<<>>) ELSE req.defaultDeveloper
    /\ EntriesAre(IF Truthy(req.defaultDeveloper)
                    THEN SelectSeq(YieldTable[tz][SelectedSheet].convertible,
                                   LAMBDA y : y.durationMinutes % 15 = 0)
                    ELSE <<>>,
                  req.defaultDeveloper)
    /\ Len(result.entries) + Cardinality({i \in 1..Len(result.errors) : IsRowError(result.errors[i])})
         = Len(req.rows)

\* the grid of hours Mon 1, Tue 0, Wed 0.25, Fri 2 gave three entries: 60, 15 and
\* 120 minutes, from the Monday to the Friday of the week ending 2024-04-05
C11_Witness ==
  /\ pc = "done"
  /\ req.workbook = <<ExampleGridSheet>>
  /\ result.errors = <<>>
  /\ [i \in 1..Len(result.entries) |-> result.entries[i].durationMinutes] = <<60, 15, 120>>
  /\ result.entries[1].startTime = NewLocalDate(tz, 2024, 3, 1)
  /\ result.entries[2].startTime = NewLocalDate(tz, 2024, 3, 3)
  /\ result.entries[3].startTime = NewLocalDate(tz, 2024, 3, 5)

(* ------------------------------ slash dates ---------------------------- *)

\* the components A, B, YYYY of the slash date of the only row of the request
SlashOf(row) ==
  [n \in 1..3 |-> DigitsToNat(SplitAt(Trim(FieldValue(row, "date").s), "/")[n])]

\* parseRows was called with one row dated 'A/B/YYYY' and has read it
SlashDateRead ==
  /\ req.endpoint = "parseRows"
  /\ Len(req.rows) = 1
  /\ run.i = 1
  /\ req.rows[1] \in SlashRows

\* the date read: the start time of the entry of the row
DateRead == run.entries[1].startTime

\* local midnight of day d of month m of year y, months and days out of range
\* carrying over
LocalDay(y, m, d) == NewLocalDate(tz, y, m - 1, d)

RowsReturned ==
  /\ pc \in {"finalize", "parsed", "done"}
  /\ run.i = Len(req.rows)
  /\ req.endpoint = "parseRows" \/ req.rows # <<>>

\* the distinct non-empty developer values of the rows, trimmed
RowDevelopers ==
  {TrimmedText(FieldValue(req.rows[i], "developer")) : i \in 1..Len(req.rows)} \ {<<>>}

\* a sheet-level default developer is supplied: a string that is not blank
DefaultSupplied == req.defaultDeveloper.k = "str" /\ Trim(req.defaultDeveloper.s) # <<>>

\* C13: detectedDeveloper is the trimmed sheet-level default developer when one is
\* supplied, whatever the rows; otherwise the single name when the rows, valid or
\* failing, hold exactly one distinct non-empty developer value; otherwise null.
\* developers is [detectedDeveloper] when it is not null and [] otherwise.
C13_DetectedDeveloper ==
  RowsReturned =>
    /\ result.detectedDeveloper =
         IF DefaultSupplied THEN Str(Trim(req.defaultDeveloper.s))
         ELSE IF Cardinality(RowDevelopers) = 1 THEN Str(CHOOSE name \in RowDevelopers : TRUE)
         ELSE Null
    /\ result.developers =
         IF result.detectedDeveloper = Null THEN <<>> ELSE <<result.detectedDeveloper.s>>

\* the project names of the rows, trimmed, the empty one left out
RowProjects == {TrimmedText(FieldValue(req.rows[i], "project")) : i \in 1..Len(req.rows)} \ {<<>>}

\* a list of names in increasing order, which has no name twice
IsSortedNames(names) == \A i, j \in 1..Len(names) : i < j => LocaleLess(names[i], names[j])

\* a project of that name exists in the entity store
ProjectExists(name) == \E id \in 1..Len(projects) : projects[id] = name

\* parseRows returned to its caller in preview mode
PreviewRowsReturned ==
  /\ pc = "done"
  /\ req.endpoint = "parseRows"
  /\ req.mode = "preview"

\* projects and errors of the result, for the project names `names`: all is the
\* sorted list of the names, invalid the names of all that are not in the store, and
\* errors starts with the one line 'Invalid projects (k/n): ...' iff invalid is not empty
ProjectsChecked(names) ==
  /\ Range(result.projects.all) = names
  /\ IsSortedNames(result.projects.all)
  /\ result.projects.invalid = SelectSeq(result.projects.all, LAMBDA name : ~ProjectExists(name))
  /\ \A i \in 2..Len(result.errors) : ~StartsWith(result.errors[i], <<"I","n","v","a","l","i","d"," ","p","r","o","j","e","c","t","s">>)
  /\ IF result.projects.invalid # <<>>
       THEN /\ result.errors # <<>>
            /\ StartsWith(result.errors[1],
                          <<"I","n","v","a","l","i","d"," ","p","r","o","j","e","c","t","s"," ","(">> \o NatToStr(Len(result.projects.invalid)) \o <<"/">>
                            \o NatToStr(Len(result.projects.all)) \o <<")",":"," ">>
                            \o result.projects.invalid[1])
       ELSE \A i \in 1..Len(result.errors) : ~StartsWith(result.errors[i], <<"I","n","v","a","l","i","d"," ","p","r","o","j","e","c","t","s">>)

\* C14, as stated: in preview mode projects.all is the sorted set of the project
\* names of the rows, projects.invalid the names of it that are not in the store,
\* and errors starts with one line 'Invalid projects (k/n): ...', k = |invalid| and
\* n = |all|, iff invalid is not empty.
C14_ProjectsOfRows == PreviewRowsReturned => ProjectsChecked(RowProjects)

\* C14, amended: as stated, for the project names of the rows that are no ignored
\* token (a name that holds 'total' or 'week ending', that reads 'project code', that
\* starts with 'daily totals', that is a date, or that holds 'daily' and ends with a colon).
C14_PreviewProjects ==
  PreviewRowsReturned =>
    ProjectsChecked({name \in RowProjects : ~shouldIgnoreProjectToken(name)})

\* a preview of rows of two projects, one of them in the store, named the other
C14_Witness ==
  /\ PreviewRowsReturned
  /\ result.projects.all = <<<<"A","p","o","l","l","o">>, <<"Z","e","u","s">>>>
  /\ result.projects.invalid = <<<<"Z","e","u","s">>>>
  /\ StartsWith(result.errors[1], <<"I","n","v","a","l","i","d"," ","p","r","o","j","e","c","t","s"," ","(","1","/","2",")",":"," ","Z","e","u","s">>)

(* ---------------------------- task resolution --------------------------- *)

\* parseRows has read the task rows of an import, every one of them into an entry
TaskRowsRead ==
  /\ req.endpoint = "parseRows"
  /\ req.mode = "import"
  /\ pc \in {"rows", "done"}
  /\ \A i \in 1..Len(req.rows) : req.rows[i] \in TaskRows

\* the task name of row i, as written
TaskNameOf(i) == FieldValue(req.rows[i], "task").s

\* C15: in import mode a task is resolved by the pair of its project id and its
\* exact name: two rows have the same task id iff they have the same project id and
\* the same name, letter case included; the task of that id has that project and
\* name; a task that was in the store keeps its id, and no pair is stored twice.
C15_TaskResolution ==
  TaskRowsRead =>
    /\ Len(run.entries) = run.i
    /\ \A i \in 1..run.i :
         /\ run.entries[i].taskId \in 1..Len(tasks)
         /\ tasks[run.entries[i].taskId]
              = [projectId |-> run.entries[i].projectId, name |-> TaskNameOf(i)]
    /\ \A i, j \in 1..run.i :
         (run.entries[i].taskId = run.entries[j].taskId)
           <=> (/\ run.entries[i].projectId = run.entries[j].projectId
                /\ TaskNameOf(i) = TaskNameOf(j))
    /\ SubSeq(tasks, 1, Len(before[3])) = before[3]
    /\ \A a, b \in 1..Len(tasks) : tasks[a] = tasks[b] => a = b

\* 'Design' and 'design' of one project were resolved to two tasks, and 'Design' of
\* another project to a third
C15_Witness ==
  /\ TaskRowsRead
  /\ pc = "done"
  /\ Len(result.entries) = 3
  /\ result.entries[1].projectId = result.entries[2].projectId
  /\ TaskNameOf(1) = <<"D","e","s","i","g","n">> /\ TaskNameOf(2) = <<"d","e","s","i","g","n">> /\ TaskNameOf(3) = <<"D","e","s","i","g","n">>
  /\ result.entries[1].taskId # result.entries[2].taskId
  /\ result.entries[3].projectId # result.entries[1].projectId
  /\ result.entries[3].taskId \notin {result.entries[1].taskId, result.entries[2].taskId}

(* ------------------------------ bulk inserts ---------------------------- *)

\* a call of bulkCreateEntries has ended
BulkEnded == pc = "done" /\ req.endpoint = "bulkCreateEntries"

\* C16: bulkCreateEntries is atomic: the entries of the call are all persisted, or
\* none is: nothing is inserted when an entry has an invalid duration, and no entry
\* of an earlier batch remains when the insert of a batch fails.
C16_BulkAtomic ==
  BulkEnded =>
    \/ /\ response.kind = "imported"
       /\ Len(timeEntries) = Len(before[4]) + Len(Last(bulkCalls))
    \/ /\ response.kind = "failed"
       /\ timeEntries = before[4]

(* ------------------------------- C17, C18 ------------------------------- *)

\* the place of an entity in parseRow's order of calls
PhaseIndex(phase) == CASE phase = "developer" -> 1 [] phase = "project" -> 2 [] phase = "task" -> 3

\* the place of a call in getOrCreateX
StepIndex(step) == IF step = "find" THEN 1 ELSE 2

\* call a was issued for an earlier row than call b, or for the same row and an
\* earlier entity, or for the same entity and it is the find before the insert
CallBefore(a, b) ==
  \/ a[1] < b[1]
  \/ a[1] = b[1] /\ PhaseIndex(a[2]) < PhaseIndex(b[2])
  \/ a[1] = b[1] /\ a[2] = b[2] /\ StepIndex(a[3]) < StepIndex(b[3])

\* the calls of an invocation were issued in row order, developer, project, task
CallsInRowOrder(imp) ==
  \A k \in 1..Len(imp.calls) - 1 : CallBefore(imp.calls[k], imp.calls[k + 1])

\* an entry is pushed only when every call of its row has returned, and no call
\* of a later row was issued before
EntriesFollowCalls(imp) ==
  /\ Len(imp.entries) = imp.i - 1
  /\ \A k \in 1..Len(imp.calls) : imp.calls[k][1] <= imp.i

\* the table an entity of the phase lives in
TableOfPhase(phase) ==
  CASE phase = "developer" -> developers [] phase = "project" -> projects [] phase = "task" -> tasks

\* the invocation inserted no two entities of the same name
CreatedOnce(imp) ==
  \A a, b \in 1..Len(imp.created) :
    (a # b /\ imp.created[a][1] = imp.created[b][1])
      => TableOfPhase(imp.created[a][1])[imp.created[a][2]]
           # TableOfPhase(imp.created[b][1])[imp.created[b][2]]

\* the entries of rows that name the same developer, project or task of the
\* same project carry the same id
SameNameSameId(imp) ==
  \A a, b \in 1..Len(imp.entries) :
    /\ imp.rows[a].developer = imp.rows[b].developer
         => imp.entries[a].developerId = imp.entries[b].developerId
    /\ imp.rows[a].project = imp.rows[b].project
         => imp.entries[a].projectId = imp.entries[b].projectId
    /\ (imp.rows[a].project = imp.rows[b].project /\ imp.rows[a].task = imp.rows[b].task)
         => imp.entries[a].taskId = imp.entries[b].taskId

\* no other invocation has started
RunsAlone(p) == \A q \in ImportIds \ {p} : imports[q].status = "idle"

HasDuplicate(table) == \E a, b \in 1..Len(table) : a < b /\ table[a] = table[b]

\* the step taken is the insert of invocation p
InsertTaken(p) == imports[p].step = "create" /\ imports'[p] # imports[p]

PreviewFileReturned ==
  /\ pc \in {"parsed", "done"}
  /\ req.endpoint = "parseFile"
  /\ req.mode = "preview"

\* C19: in every result of parseFile in preview mode, also one returned when
\* the grid conversion or the header detection failed, projects.invalid holds a
\* name only if no project of that name is in the store
C19_InvalidOnlyMissing ==
  PreviewFileReturned =>
    \A k \in 1..Len(result.projects.invalid) : ~ProjectExists(result.projects.invalid[k])

(* --------------------------------- C20 ---------------------------------- *)

\* the normalized header keys parseFile reads from a sheet
KeyTable ==
  [sheet \in SheetUniverse |->
     NormalizedKeys(sheetToJson(sheet.matrix, UsedHeaderRow(AnalysisTable[sheet])))]

\* the distinct weekday tokens among the header keys of a sheet
WeekdayKeyTokens(sheet) == {FirstToken(k) : k \in KeyTable[sheet]} \cap weekdayTokens

\* the distinct weekday tokens among the cells of row r of a matrix
WeekdayRowTokens(matrix, r) ==
  {FirstToken(normalizeCell(matrix[r][c])) : c \in 1..Len(matrix[r])} \cap weekdayTokens

\* the anchors of the matrix-level detection: a row of at least five weekday
\* tokens, or a 'Project Code' cell
HasMatrixAnchor(sheet) ==
  \/ \E r \in 1..Len(sheet.matrix) : Cardinality(WeekdayRowTokens(sheet.matrix, r)) >= 5
  \/ \E r \in 1..Len(sheet.matrix) : \E c \in 1..Len(sheet.matrix[r]) :
       normalizeCell(sheet.matrix[r][c]) = <<"p","r","o","j","e","c","t"," ","c","o","d","e">>

\* parseFile chose its branch for a sheet of the universe
FileRouted ==
  /\ pc \in {"rows", "finalize", "parsed", "done"}
  /\ req.endpoint \in {"parseFile", "parseExcel", "importExcel"}
  /\ \E sheet \in SheetUniverse : sheet.name = req.sheetName

\* the sheet parseFile selected
RoutedSheet == CHOOSE sheet \in SheetUniverse : sheet.name = req.sheetName

\* C20: a sheet is routed to the weekly-grid conversion only if its header keys
\* hold at least 5 distinct weekday tokens, or the matrix has a row of 5 weekday
\* tokens or a 'Project Code' cell; a sheet with fewer weekday-named header
\* cells is parsed row by row
C20_FiveWeekdayKeys ==
  (FileRouted /\ RouteTable[RoutedSheet] = "grid")
    => \/ Cardinality(WeekdayKeyTokens(RoutedSheet)) >= 5
       \/ HasMatrixAnchor(RoutedSheet)

(* ------------------------------- C21, C22 ------------------------------- *)

\* the layout the conversion finds on each grid given alone
GridLayoutTable == [z \in TimeZones |-> [sheet \in GridSheets |-> GridLayout(z, sheet.matrix)]]

\* the week-ending date found on each grid given alone
WeekEndingTable == [z \in TimeZones |-> [sheet \in GridSheets |-> WeekEnding(z, sheet.matrix)]]

\* the grid parseFile was given alone
GivenGrid == CHOOSE sheet \in GridSheets : sheet.name = req.sheetName

\* parseFile converted a grid given alone and handed its rows to parseRows
GridConverted ==
  /\ pc \in {"rows", "finalize", "parsed", "done"}
  /\ req.endpoint = "parseFile"
  /\ \E sheet \in GridSheets : sheet.name = req.sheetName
  /\ GridPlanTable[tz][GivenGrid].kind = "rows"

\* no day column of the grid has an explicit date and a week ending was found
DatedByWeekEnding(z, sheet) ==
  /\ WeekEndingTable[z][sheet] # Null
  /\ \A i \in 1..Len(GridLayoutTable[z][sheet].dayCols) :
       ExplicitDayDate(z, sheet.matrix, GridHeader(sheet.matrix).headerRow,
                       GridLayoutTable[z][sheet].dayCols[i].col) = Null

\* the column of the rightmost day column
LastDayCol(layout) == MaxOf({layout.dayCols[i].col : i \in 1..Len(layout.dayCols)})

\* the cells the synthesized rows come from, in the order of the rows
SourceCells(z, sheet) == ConvertibleCells(sheet.matrix, GridLayoutTable[z][sheet])

\* the column of a cell
ColOfCell(layout, cell) == layout.dayCols[cell[2]].col

\* the synthesized rows carry, cell by cell, the week ending moved by the distance
\* in columns from the rightmost day column
RowsDatedByColumn(z, sheet, rows) ==
  /\ Len(rows) = Len(SourceCells(z, sheet))
  /\ \A i \in 1..Len(rows) :
       rows[i][4].val
         = DateVal(AddDays(WeekEndingTable[z][sheet].n,
                           ColOfCell(GridLayoutTable[z][sheet], SourceCells(z, sheet)[i])
                             - LastDayCol(GridLayoutTable[z][sheet])))

\* C21: when no day column has an explicit date and a week ending W is found,
\* the row synthesized from a cell of the day column at index c is dated
\* W + (c - cmax) days, cmax the index of the rightmost day column, whatever the
\* weekday names; a cell of the rightmost day column is dated W
C21_ColumnDelta ==
  (GridConverted /\ DatedByWeekEnding(tz, GivenGrid)) => RowsDatedByColumn(tz, GivenGrid, req.rows)

\* a grid with a column between its day columns and a Sat..Fri grid were converted:
\* a row is dated W, another two columns left of a gap W - 2 or six columns left W - 6
C21_Witness ==
  /\ GridConverted
  /\ DatedByWeekEnding(tz, GivenGrid)
  /\ GivenGrid \in {GappedWeekSheet, CardsSheet}
  /\ pc = "done"
  /\ \E i \in 1..Len(req.rows) : req.rows[i][4].val = WeekEndingTable[tz][GivenGrid]
  /\ \E i \in 1..Len(req.rows) :
       req.rows[i][4].val.n \in {AddDays(WeekEndingTable[tz][GivenGrid].n, -2),
                                  AddDays(WeekEndingTable[tz][GivenGrid].n, -6)}

\* the header row of the grid was found by its Project Code cell, no row having
\* five weekdays
AnchoredOnProjectCode(sheet) ==
  /\ GridHeader(sheet.matrix).headerRow >= 0
  /\ \A r \in RowsUpTo(sheet.matrix, 30) :
       Cardinality({WeekdayCols(sheet.matrix, r)[c] : c \in DOMAIN WeekdayCols(sheet.matrix, r)}) < 5

\* the seven columns right of the task column, Sat..Fri
ColsRightOfTask(taskCol) ==
  [k \in 1..7 |-> [dayIndex |-> (k + 4) % 7, col |-> taskCol + k]]

\* analyzeSheet of a grid given alone
AnalysisOfGrid(sheet) == analyzeSheet(sheet)

\* what the conversion yields when the day columns are those right of the task column
RowsRightOfTask ==
  [z \in TimeZones |->
     [sheet \in GridSheets |->
        ConvertUnder(z, sheet.matrix, AnalysisOfGrid(sheet).defaultDeveloper,
                     GridHeader(sheet.matrix).headerRow,
                     ColsRightOfTask(GridLayoutTable[z][sheet].taskCol)).rows]]

\* C22: in the Project Code fallback the day columns are the columns right of the
\* task-label column, Sat..Fri, wherever the Project Code cell is on the sheet
C22_DaysRightOfTask ==
  (GridConverted /\ AnchoredOnProjectCode(GivenGrid)) => req.rows = RowsRightOfTask[tz][GivenGrid]

(* ---------------------------- C23, C24, C25 ----------------------------- *)

\* parseRows returned from a call with one checked row
CheckedReturned ==
  /\ pc = "done"
  /\ req.endpoint = "parseRows"
  /\ Len(req.rows) = 1
  /\ Len(req.rows[1]) = 6

\* the cells of the checked row
CheckedDeveloper == req.rows[1][1].val

CheckedProject == req.rows[1][2].val

CheckedDate == req.rows[1][3].val

CheckedDuration == req.rows[1][4].val

CheckedStart == req.rows[1][5].val

CheckedEnd == req.rows[1][6].val

\* some cell of the checked row holds text
CheckedNotBlank == \E c \in 1..6 : req.rows[1][c].val.k = "str" /\ Trim(req.rows[1][c].val.s) # <<>>

\* an explicit duration value is given
DurationGiven == ~IsNullish(CheckedDuration) /\ CheckedDuration # Str(<<>>)

\* developer (of the row or the default), project and date are given and the date parses
RequiredGiven ==
  /\ Truthy(CheckedDeveloper) \/ Truthy(req.defaultDeveloper)
  /\ Truthy(CheckedProject)
  /\ Truthy(CheckedDate)
  /\ parseDate(tz, CheckedDate) # Null

\* start and end are given and both parse
TimesParse ==
  /\ Truthy(CheckedStart) /\ Truthy(CheckedEnd)
  /\ parseTime(tz, parseDate(tz, CheckedDate), CheckedStart) # Null
  /\ parseTime(tz, parseDate(tz, CheckedDate), CheckedEnd) # Null

\* the message of the first check the row fails, <<>> when it passes them all;
\* unparsed is the message for a start and an end that are given and do not parse
FirstFailure(unparsed) ==
  IF ~Truthy(CheckedDeveloper) /\ ~Truthy(req.defaultDeveloper) THEN <<"M","i","s","s","i","n","g"," ","d","e","v","e","l","o","p","e","r"," ","n","a","m","e">>
  ELSE IF ~Truthy(CheckedProject) THEN <<"M","i","s","s","i","n","g"," ","p","r","o","j","e","c","t"," ","n","a","m","e">>
  ELSE IF ~Truthy(CheckedDate) THEN <<"M","i","s","s","i","n","g"," ","d","a","t","e">>
  ELSE IF parseDate(tz, CheckedDate) = Null THEN <<"I","n","v","a","l","i","d"," ","d","a","t","e",":"," ">> \o ToStr(CheckedDate)
  ELSE IF DurationGiven \/ TimesParse THEN <<>>
  ELSE IF Truthy(CheckedStart) /\ Truthy(CheckedEnd) THEN unparsed
  ELSE <<"M","u","s","t"," ","p","r","o","v","i","d","e"," ","e","i","t","h","e","r"," ","d","u","r","a","t","i","o","n"," ","o","r"," ","s","t","a","r","t","/","e","n","d"," ","t","i","m","e","s">>

\* the messages of the checks
CheckMessages ==
  {<<"M","i","s","s","i","n","g"," ","d","e","v","e","l","o","p","e","r"," ","n","a","m","e">>, <<"M","i","s","s","i","n","g"," ","p","r","o","j","e","c","t"," ","n","a","m","e">>, <<"M","i","s","s","i","n","g"," ","d","a","t","e">>,
   <<"M","u","s","t"," ","p","r","o","v","i","d","e"," ","e","i","t","h","e","r"," ","d","u","r","a","t","i","o","n"," ","o","r"," ","s","t","a","r","t","/","e","n","d"," ","t","i","m","e","s">>, <<"I","n","v","a","l","i","d"," ","s","t","a","r","t"," ","o","r"," ","e","n","d"," ","t","i","m","e">>}

\* the row errors of the result
RowErrorsOf(errors) == SelectSeq(errors, IsRowError)

\* the result reports the first failure and nothing else, or none of the checks
CheckReported(message) ==
  IF message # <<>>
    THEN /\ RowErrorsOf(result.errors) = <<RowError(DefaultFirstDataRow, message)>>
         /\ result.entries = <<>>
    ELSE /\ \A m \in CheckMessages :
              \A i \in 1..Len(result.errors) : result.errors[i] # RowError(DefaultFirstDataRow, m)
         /\ \A i \in 1..Len(result.errors) : ~Includes(result.errors[i], <<"I","n","v","a","l","i","d"," ","d","a","t","e">>)

\* C23 as stated: the checks in their order, only the first failure reported, and
\* 'Must provide either duration or start/end times' in every case without a
\* duration and without a parseable start and end
C23_FirstFailureOrMissing ==
  (CheckedReturned /\ CheckedNotBlank)
    => CheckReported(FirstFailure(<<"M","u","s","t"," ","p","r","o","v","i","d","e"," ","e","i","t","h","e","r"," ","d","u","r","a","t","i","o","n"," ","o","r"," ","s","t","a","r","t","/","e","n","d"," ","t","i","m","e","s">>))

\* C23: parseRow on a row that is not blank reports the first failure only, in the
\* order developer (after the default), project, date, 'Invalid date: {raw}', then
\* the duration: an explicit duration is used in preference to start and end; without
\* it, a start and an end that are both given but do not both parse give 'Invalid
\* start or end time', and a missing start or end gives 'Must provide either
\* duration or start/end times'
C23_FirstFailure ==
  (CheckedReturned /\ CheckedNotBlank) => CheckReported(FirstFailure(<<"I","n","v","a","l","i","d"," ","s","t","a","r","t"," ","o","r"," ","e","n","d"," ","t","i","m","e">>))

\* a row without project and date, with start and end times, under a default
\* developer was reported as 'Missing project name' alone
C23_Witness ==
  /\ CheckedReturned
  /\ ~Truthy(CheckedDeveloper) /\ Truthy(req.defaultDeveloper)
  /\ ~Truthy(CheckedProject) /\ ~Truthy(CheckedDate)
  /\ Truthy(CheckedStart) /\ Truthy(CheckedEnd)
  /\ RowErrorsOf(result.errors) = <<RowError(DefaultFirstDataRow, <<"M","i","s","s","i","n","g"," ","p","r","o","j","e","c","t"," ","n","a","m","e">>)>>

\* the hour of a matched time after the 12-hour adjustment
AdjustedHour(m) ==
  IF m[3] = "PM" /\ m[1] < 12 THEN m[1] + 12 ELSE IF m[3] = "AM" /\ m[1] = 12 THEN 0 ELSE m[1]

\* t is on the local calendar day of date, at the hour and minute
OnDayAt(z, t, date, hour, minute) ==
  /\ LocalDayStart(z, t) = LocalDayStart(z, date)
  /\ (t - LocalDayStart(z, t)) \div 60 = hour
  /\ (t - LocalDayStart(z, t)) % 60 = minute

\* C24: parseTime on a value of the form H:MM[:SS][ AM|PM] or HHMM gives the given
\* date's local calendar day at the parsed hour, after the 12-hour adjustment, and
\* minute; on every other value it gives null (seen as the start time of an entry
\* with a duration, and as 'Invalid start or end time' on a row without)
C24_TimeOnDay ==
  (CheckedReturned /\ RequiredGiven /\ CheckedStart.k = "str" /\ Trim(CheckedStart.s) # <<>>)
    => /\ (TimeMatch(Trim(CheckedStart.s)) # <<>> /\ DurationGiven /\ result.entries # <<>>)
            => OnDayAt(tz, result.entries[1].startTime.n, parseDate(tz, CheckedDate).n,
                       AdjustedHour(TimeMatch(Trim(CheckedStart.s))),
                       TimeMatch(Trim(CheckedStart.s))[2])
       /\ (TimeMatch(Trim(CheckedStart.s)) = <<>> /\ ~DurationGiven /\ Truthy(CheckedEnd))
            => RowErrorsOf(result.errors)
                 = <<RowError(DefaultFirstDataRow, <<"I","n","v","a","l","i","d"," ","s","t","a","r","t"," ","o","r"," ","e","n","d"," ","t","i","m","e">>)>>

\* C25: a row whose start cell is given and does not parse is reported as a row
\* error also when it has an explicit duration; the startTime of an entry is the
\* start time on the row's date when a start value is given, and the midnight of
\* the date only when none is
C25_StartTimeChecked ==
  (CheckedReturned /\ RequiredGiven)
    => /\ (Truthy(CheckedStart) /\ parseTime(tz, parseDate(tz, CheckedDate), CheckedStart) = Null)
            => (result.entries = <<>> /\ RowErrorsOf(result.errors) # <<>>)
       /\ result.entries # <<>>
            => result.entries[1].startTime
                 = (IF Truthy(CheckedStart) THEN parseTime(tz, parseDate(tz, CheckedDate), CheckedStart)
                    ELSE parseDate(tz, CheckedDate))

(* --------------------------------- C26 ---------------------------------- *)

\* the sheet given alone
GivenLoose == CHOOSE sheet \in LooseSheets : sheet.name = req.sheetName

\* parseFile produced its result for a sheet given alone
LooseReturned ==
  /\ pc \in {"parsed", "done"}
  /\ req.endpoint \in {"parseFile", "importExcel"}
  /\ \E sheet \in LooseSheets : sheet.name = req.sheetName

\* the sheet has a data row with a cell that is not empty beneath its header row
HasDataRow(sheet) ==
  \E r \in 2..Len(sheet.matrix) : \E c \in 1..Len(sheet.matrix[r]) :
    sheet.matrix[r][c].k = "str" /\ Trim(sheet.matrix[r][c].s) # <<>>

\* C26: parseFile never reports a silent empty success: for a sheet with a data
\* row that is not empty beneath its header row, the result does not have both no
\* entries and no errors, also when the headers are recognized as header cells
\* ('Hours', 'Employee Name') and map to no field
C26_NoSilentEmpty ==
  (LooseReturned /\ HasDataRow(GivenLoose)) => ~(result.entries = <<>> /\ result.errors = <<>>)

(* --------------------------------- C27 ---------------------------------- *)

\* the spreadsheet row (from 1) of the cell the synthesized row i (from 0) comes from
SheetRowOf(z, sheet, i) == SourceCells(z, sheet)[i + 1][1] + 1

\* C27: for rows synthesized from a weekly grid, the row number n of an error
\* 'Row n: ...' is the spreadsheet row of the grid cell the failing record came
\* from: cells of one sheet row report the same n, cells of different rows differ
C27_RowOfCell ==
  [][(/\ GridConverted
      /\ pc = "rows"
      /\ run.i < Len(req.rows)
      /\ Len(req.rows) = Len(SourceCells(tz, GivenGrid))
      /\ Len(run'.errors) > Len(run.errors))
       => StartsWith(Last(run'.errors),
                     <<"R","o","w"," ">> \o NatToStr(SheetRowOf(tz, GivenGrid, run.i)) \o <<":"," ">>)]_vars

(* --------------------------------- C28 ---------------------------------- *)

\* parseRows returned a result that names a detected developer
DeveloperDetected ==
  /\ pc = "done"
  /\ req.endpoint = "parseRows"
  /\ result.detectedDeveloper # Null

\* the names the entries and the preview rows of the result were resolved by: the
\* developer of a preview row and, for an import, the stored name of the
\* developer of an entry
AttributedNames ==
  {ToStr(result.preview[i].developer) : i \in 1..Len(result.preview)}
    \cup (IF req.mode = "import"
            THEN {developers[result.entries[i].developerId] : i \in 1..Len(result.entries)}
            ELSE {})

\* C28: single-developer consistency: whenever a result has a detectedDeveloper,
\* every entry and every preview row of it is attributed to that developer
C28_SingleDeveloper ==
  DeveloperDetected => AttributedNames \subseteq {result.detectedDeveloper.s}

(* --------------------------------- C29 ---------------------------------- *)

\* parseRows returned from a call with one row dated by a slash or 'YYYY-M-D' date
DatedReturned ==
  /\ pc = "done"
  /\ req.endpoint = "parseRows"
  /\ Len(req.rows) = 1
  /\ req.rows[1] \in DatedRows

\* the text of the Date cell of the row
DateText == Trim(FieldValue(req.rows[1], "date").s)

\* the days of month m (1..12) of year y
MonthLength(y, m) == IF m = 12 THEN 31 ELSE DaysBeforeMonth(y, m) - DaysBeforeMonth(y, m - 1)

\* day d of month m of year y is a day of the calendar
IsCalendarDay(y, m, d) == m \in 1..12 /\ d >= 1 /\ d <= MonthLength(y, m)

\* the <<year, month, day>> a date text can be read as: 'Y-M-D' as written,
\* 'A/B/Y' as month A, day B or as day A, month B
WrittenDays(s) ==
  IF MatchesYmd(s)
    THEN {<<DigitsToNat(SplitAt(s, "-")[1]), DigitsToNat(SplitAt(s, "-")[2]),
            DigitsToNat(SplitAt(s, "-")[3])>>}
    ELSE {<<DigitsToNat(SplitAt(s, "/")[3]), DigitsToNat(SplitAt(s, "/")[1]),
            DigitsToNat(SplitAt(s, "/")[2])>>,
          <<DigitsToNat(SplitAt(s, "/")[3]), DigitsToNat(SplitAt(s, "/")[2]),
            DigitsToNat(SplitAt(s, "/")[1])>>}

\* local midnight of the calendar days a date text can be read as
CalendarDaysOf(s) ==
  {LocalDay(w[1], w[2], w[3]) : w \in {v \in WrittenDays(s) : IsCalendarDay(v[1], v[2], v[3])}}

\* C29: parseDate never silently corrects an impossible calendar date: a
\* 'YYYY-M-D' or slash date whose month is outside 1..12 or whose day is outside
\* the month fails the row with 'Invalid date: {raw}'; a returned date has the
\* year, month and day written in the input
C29_NoCorrection ==
  DatedReturned =>
    /\ \A i \in 1..Len(result.entries) : result.entries[i].startTime \in CalendarDaysOf(DateText)
    /\ CalendarDaysOf(DateText) = {} =>
         \E i \in 1..Len(result.errors) :
           result.errors[i] = RowError(2, <<"I","n","v","a","l","i","d"," ","d","a","t","e",":"," ">> \o FieldValue(req.rows[1], "date").s)

(* --------------------------------- C30 ---------------------------------- *)

\* the service was called and has answered
ServiceAnswered ==
  req.endpoint \in {"createEntry", "bulkCreateEntries", "updateEntry", "deleteEntry"}

\* C30: after any sequence of createEntry, bulkCreateEntries, updateEntry and
\* deleteEntry calls every persisted time entry has durationMinutes > 0 and
\* durationMinutes % 15 = 0: a call that would store another duration (an
\* updateEntry with durationMinutes = 0 too) fails and leaves the rows unchanged
C30_StoredDurations ==
  ServiceAnswered =>
    \A id \in StoredIds(timeEntries) :
      timeEntries[id].durationMinutes > 0 /\ timeEntries[id].durationMinutes % 15 = 0
====
